---- MODULE Spec2Model ----
(***************************************************************************)
(* A model of go-filecache: the cache-entry file codec (package file),     *)
(* the cache Item and the cache Pool, over a small POSIX-like directory.   *)
(*                                                                         *)
(* A regular file is kept field by field, as the codec addresses it:       *)
(*   sig   bytes 0..7   (shorter when the file is shorter than 8 bytes)    *)
(*   exp   bytes 8..15  (fewer when the file ends before byte 16)          *)
(*   sum   bytes 64..83 the stored SHA1 (ZeroHash: never written, zeros)   *)
(*   data  bytes 84..EOF                                                   *)
(* Bytes past the end of a short file read as zeros: every reader of the   *)
(* codec reads into a zeroed buffer and ignores io.EOF.                    *)
(* A file also carries the environment's faults: the fields of the file    *)
(* whose WriteAt the operating system fails with an I/O error.             *)
(***************************************************************************)
EXTENDS Integers, Sequences, FiniteSets, TLC

\* ----------------------------------------------------------------- bounds
\* Length of the payload that fits one read/write buffer.
ShortLen == 1
\* How far the long payload exceeds one read/write buffer.
LongExtra == 1
\* Number of quarter-millisecond ticks the clock may advance.
MaxTicks == 3
\* Number of goroutines.
MaxProcs == 2
\* Length of the longest key an Item is built for.
MaxKeyLen == 2

\* ------------------------------------------------------ program constants
rwBufferSize == 32
SignatureOffset == 0
SignatureLength == 8
ExpiresAtOffset == 8
ExpiresAtLength == 8
DataSha1Offset == 64
DataSha1Length == 20
DataOffset == 84
\* time.Millisecond, in nanoseconds
Millisecond == 1000000

\* var DefaultSignature = FSignature("#/CACHE ")
DefaultSignature == <<35, 47, 67, 65, 67, 72, 69, 32>>

\* ---------------------------------------------------------------- helpers
\* F applied to the value v: the value of an assignment, used in what follows
\* (v is worked out once, also where ENABLED is evaluated).
Bind(v, F(_)) == CHOOSE y \in {F(x) : x \in {v}} : TRUE

Min(a, b) == IF a < b THEN a ELSE b
Max(a, b) == IF a > b THEN a ELSE b

\* n copies of byte b
Fill(b, n) == [i \in 1..n |-> b]

\* s[from..to] (1-based, empty when from > to)
Slice(s, from, to) == SubSeq(s, from, to)

\* s with zero bytes appended up to length n (a write past EOF leaves a hole)
ZeroPad(s, n) == IF Len(s) >= n THEN s ELSE s \o Fill(0, n - Len(s))

\* The bytes of `old` overwritten by `buf` starting at 0-based position pos.
Overwrite(old, buf, pos) ==
    ZeroPad(SubSeq(old, 1, Min(pos, Len(old))), pos) \o buf
        \o SubSeq(old, pos + Len(buf) + 1, Len(old))

\* --------------------------------------------------------------- digest
\* hash.Hash (SHA1), taken as collision-free: the state of the hash is the
\* byte sequence written since Reset, Sum is a value determined by it.
HashReset == <<>>
\* A digest that tells apart lengths only, not contents.
HashWrite_LengthOnly(h, buf) == h \o Fill(0, Len(buf))

HashWrite(h, buf) == h \o buf
HashSum(h) == [sha1 |-> h]
\* Twenty zero bytes (never written): the digest of no payload of the model.
ZeroHash == [sha1 |-> <<-1>>]

\* ------------------------------------------------------------- errors
\* error values: the standard library's (the cause) ...
Nil == "nil"
EOF == "EOF"
ENOENT == "no such file or directory"
EIO == "input/output error"
EISDIR == "is a directory"
EACCES == "permission denied"
EPERM == "operation not permitted"
EBUSY == "device or resource busy"
ErrNotSet == "value was not set"
ErrMismatch == "data hashes mismatched"
\* ... and the package's own kinds, newError(kind, message, cause)
ErrFileOpening == "ErrFileOpening"
ErrFileReading == "ErrFileReading"
ErrFileWriting == "ErrFileWriting"
ErrExpirationDataNotAvailable == "ErrExpirationDataNotAvailable"
newError(kind, cause) == [kind |-> kind, cause |-> cause]
NoError == [kind |-> Nil, cause |-> Nil]

\* ------------------------------------------------- directory entries
\* What a name of the pool directory holds: nothing, a regular file (with
\* its content), a subdirectory, or a symbolic link to another name. faults
\* holds what the environment makes fail on the entry: the fields whose
\* WriteAt fails, and the errors that opening it (EACCES) or removing it
\* (EPERM, EBUSY) meets.
NoEntry ==
    [kind |-> "none", sig |-> <<>>, exp |-> <<>>, sum |-> ZeroHash, data |-> <<>>, to |-> <<>>,
     faults |-> {}]
EmptyFile == [NoEntry EXCEPT !.kind = "file"]
SubDir == [NoEntry EXCEPT !.kind = "dir"]
SymLink(name) == [NoEntry EXCEPT !.kind = "link", !.to = name]

\* ------------------------------------------------ package file: codec
\* os.File.ReadAt(buf, off) on the signature field: the n bytes the file has.
getSignature(f) ==
    IF f.kind # "file" THEN [sig |-> <<>>, err |-> EISDIR]
    ELSE [sig |-> Slice(f.sig, 1, Min(Len(f.sig), SignatureLength)), err |-> Nil]

SignatureMatched(f, Signature) ==
    Bind(getSignature(f), LAMBDA r :
        IF r.err # Nil THEN [matched |-> FALSE, err |-> r.err]
        ELSE [matched |-> (r.sig = Signature), err |-> Nil])

wrongLength == "wrong length"

\* os.File.WriteAt on the given field of f returns an error.
WriteAtFails(f, field) == field \in f.faults

setSignature(f, signature) ==
    IF Len(signature) # SignatureLength THEN [f |-> f, err |-> wrongLength]
    ELSE IF WriteAtFails(f, "sig") THEN [f |-> f, err |-> EIO]
    ELSE [f |-> [f EXCEPT !.sig = signature], err |-> Nil]

\* A write at an offset past the signature field leaves the file at least
\* SignatureLength bytes long: a shorter signature field is zero-filled.
PadSig(f) == IF Len(f.sig) >= SignatureLength THEN f
             ELSE [f EXCEPT !.sig = ZeroPad(f.sig, SignatureLength)]

\* A write at an offset past the expiration field leaves the file at least
\* 16 bytes long: what the file lacked of the two fields is zero-filled.
PadExp(f) == [PadSig(f) EXCEPT !.exp = ZeroPad(f.exp, ExpiresAtLength)]

\* binary.LittleEndian.PutUint64: the n low bytes of v, the lowest first.
RECURSIVE PutUint(_, _)
PutUint(v, n) == IF n = 0 THEN <<>> ELSE <<v % 256>> \o PutUint(v \div 256, n - 1)

PutUint64(v) == PutUint(v, ExpiresAtLength)

\* binary.LittleEndian.Uint64
RECURSIVE Uint64(_)
Uint64(buf) == IF Len(buf) = 0 THEN 0 ELSE Head(buf) + 256 * Uint64(Tail(buf))

\* ReadAt fills what the file has of the field; the rest of buf stays zero.
getExpiresAtUnixMs(f) ==
    IF f.kind # "file" THEN [ms |-> 0, err |-> EISDIR]
    ELSE [ms |-> Uint64(ZeroPad(f.exp, ExpiresAtLength)), err |-> Nil]

\* GetExpiresAt taking a stored 0 for the instant of the epoch.
GetExpiresAt_ZeroIsEpoch(f) ==
    Bind(getExpiresAtUnixMs(f), LAMBDA r : [t |-> r.ms * Millisecond, err |-> r.err])

\* The time is given as its UnixNano().
GetExpiresAt(f) ==
    Bind(getExpiresAtUnixMs(f), LAMBDA r :
        [t |-> r.ms * Millisecond,
         err |-> IF r.ms = 0 /\ r.err = Nil THEN ErrNotSet ELSE r.err])

setExpiresAtUnixMs(f, ts) ==
    IF WriteAtFails(f, "exp") THEN [f |-> f, err |-> EIO]
    ELSE [f |-> [PadSig(f) EXCEPT !.exp = PutUint64(ts)], err |-> Nil]

\* SetExpiresAt rounding up to the next millisecond.
SetExpiresAt_RoundUp(f, t) == setExpiresAtUnixMs(f, (t + Millisecond - 1) \div Millisecond)

SetExpiresAt(f, t) == setExpiresAtUnixMs(f, t \div Millisecond)

setDataSHA1(f, h) ==
    IF WriteAtFails(f, "sum") THEN [f |-> f, err |-> EIO]
    ELSE [f |-> [PadExp(f) EXCEPT !.sum = h], err |-> Nil]

getDataSHA1(f) == [sum |-> f.sum, err |-> Nil]

\* bytes.Buffer.Read(buf) with len(buf) = n on the unread bytes `in`.
BufferRead(in, n) ==
    IF Len(in) = 0
    THEN [n |-> 0, err |-> IF n = 0 THEN Nil ELSE EOF, in |-> in, buf |-> <<>>]
    ELSE Bind(Min(n, Len(in)), LAMBDA k :
            [n |-> k, err |-> Nil, in |-> SubSeq(in, k + 1, Len(in)), buf |-> SubSeq(in, 1, k)])

\* os.File.WriteAt(buf, off) into the data field: the file it leaves, the
\* number of bytes written and the error.
WriteData(f, buf, off) ==
    IF WriteAtFails(f, "data") THEN [f |-> f, n |-> 0, err |-> EIO]
    ELSE IF Len(buf) = 0 THEN [f |-> f, n |-> 0, err |-> Nil]
    ELSE [f |-> [PadExp(f) EXCEPT !.data = Overwrite(f.data, buf, off - DataOffset)],
          n |-> Len(buf), err |-> Nil]

\* An io.Reader: the bytes it has yet to give (in), the sizes of the reads
\* it is about to give (sizes: each Read gives at most that many bytes, and
\* once the list is used up as many as are asked for), and whether it gives
\* io.EOF together with its last bytes (eofWithData) or on the Read after.
NewReader(in, sizes, eofWithData) ==
    [in |-> in, sizes |-> sizes, eofWithData |-> eofWithData]

\* bytes.NewBuffer(in)
NewBuffer(in) == NewReader(in, <<>>, FALSE)

\* in.Read(buf) with len(buf) = n on the reader rd.
Read(rd, n) ==
    IF rd.sizes = <<>> /\ ~rd.eofWithData
    THEN Bind(BufferRead(rd.in, n), LAMBDA r :
            [n |-> r.n, err |-> r.err, in |-> r.in, sizes |-> rd.sizes, buf |-> r.buf])
    ELSE IF n = 0 THEN [n |-> 0, err |-> Nil, in |-> rd.in, sizes |-> rd.sizes, buf |-> <<>>]
    ELSE IF Len(rd.in) = 0
    THEN [n |-> 0, err |-> EOF, in |-> rd.in, sizes |-> rd.sizes, buf |-> <<>>]
    ELSE Bind(IF rd.sizes = <<>> THEN Min(n, Len(rd.in))
              ELSE Min(Head(rd.sizes), Min(n, Len(rd.in))), LAMBDA k :
            [n |-> k,
             err |-> IF rd.eofWithData /\ k = Len(rd.in) THEN EOF ELSE Nil,
             in |-> SubSeq(rd.in, k + 1, Len(rd.in)),
             sizes |-> IF rd.sizes = <<>> THEN <<>> ELSE Tail(rd.sizes),
             buf |-> SubSeq(rd.in, 1, k)])

\* setData before its loop: the reader, buf, off and the hash.
setDataStartFrom(rd) ==
    [in |-> rd.in, sizes |-> rd.sizes, eofWithData |-> rd.eofWithData,
     bufLen |-> rwBufferSize, off |-> DataOffset, hashing |-> HashReset]

setDataStart(in) == setDataStartFrom(NewBuffer(in))

\* One pass of setData's loop.
setDataStep(f, st) ==
    Bind(Read(st, st.bufLen), LAMBDA r :
        IF r.err # Nil
        THEN [f |-> f, st |-> st, done |-> TRUE, err |-> IF r.err # EOF THEN r.err ELSE Nil]
        ELSE Bind(WriteData(f, r.buf, st.off), LAMBDA w :
                IF w.err # Nil THEN [f |-> w.f, st |-> st, done |-> TRUE, err |-> w.err]
                ELSE [f |-> w.f,
                      st |-> [st EXCEPT !.in = r.in, !.sizes = r.sizes, !.bufLen = r.n,
                                        !.off = st.off + w.n,
                                        !.hashing = HashWrite(st.hashing, r.buf)],
                      done |-> FALSE, err |-> Nil]))

\* setData after its loop: the digest is stored.
setDataFinish(f, st) == setDataSHA1(f, HashSum(st.hashing))

RECURSIVE setDataLoop(_, _)
setDataLoop(f, st) ==
    Bind(setDataStep(f, st), LAMBDA r :
        IF ~r.done THEN setDataLoop(r.f, r.st)
        ELSE IF r.err # Nil THEN [f |-> r.f, err |-> r.err]
        ELSE setDataFinish(r.f, r.st))

\* File.setData(in) for a reader in
setDataFrom(f, rd) == setDataLoop(f, setDataStartFrom(rd))

\* File.setData(bytes.NewBuffer(in))
setData(f, in) == setDataFrom(f, NewBuffer(in))

\* os.File.ReadAt(buf, off) with len(buf) = n in the data field.
ReadData(f, n, off) ==
    Bind(Max(0, Min(n, Len(f.data) - (off - DataOffset))), LAMBDA k :
        [n |-> k, err |-> IF k < n THEN EOF ELSE Nil,
         buf |-> IF k = 0 THEN <<>>
                 ELSE SubSeq(f.data, off - DataOffset + 1, off - DataOffset + k)])

getDataStart == [bufLen |-> rwBufferSize, off |-> DataOffset, hashing |-> HashReset, out |-> <<>>]

\* One pass of getData's loop (the sink is a bytes.Buffer: it takes all).
getDataStep(f, st) ==
    Bind(ReadData(f, st.bufLen, st.off), LAMBDA r :
        [st |-> [bufLen |-> r.n, off |-> st.off + r.n,
                 hashing |-> HashWrite(st.hashing, r.buf), out |-> st.out \o r.buf],
         done |-> (r.err = EOF)])

\* getDataFinish without the comparison of the digests.
getDataFinish_Unchecked(f, st) == [out |-> st.out, err |-> getDataSHA1(f).err]

\* getData after its loop: the digests are compared.
getDataFinish(f, st) ==
    Bind(getDataSHA1(f), LAMBDA e :
        IF e.err # Nil THEN [out |-> st.out, err |-> e.err]
        ELSE IF HashSum(st.hashing) # e.sum THEN [out |-> st.out, err |-> ErrMismatch]
        ELSE [out |-> st.out, err |-> Nil])

RECURSIVE getDataLoop(_, _)
getDataLoop(f, st) ==
    Bind(getDataStep(f, st), LAMBDA r :
        IF r.done THEN getDataFinish(f, r.st) ELSE getDataLoop(f, r.st))

getData(f) == getDataLoop(f, getDataStart)

\* ------------------------------------------------------- file names
\* hex.EncodeToString: two characters (their codes) per byte.
HexChars == <<48, 49, 50, 51, 52, 53, 54, 55, 56, 57, 97, 98, 99, 100, 101, 102>>

EncodeToString(bytes) ==
    [i \in 1..(2 * Len(bytes)) |->
        IF i % 2 = 1 THEN HexChars[(bytes[(i + 1) \div 2] \div 16) + 1]
        ELSE HexChars[(bytes[i \div 2] % 16) + 1]]

\* sha1.New().Sum(nil): the digest of no input, da39a3ee...afd80709.
Sha1OfNothing ==
    <<218, 57, 163, 238, 94, 107, 75, 13, 50, 85, 191, 239, 149, 96, 24, 144, 175, 216, 7, 9>>

\* keyToFileName leaving the key out: the digest of the unwritten hash alone.
keyToFileName_DigestOnly(key) == EncodeToString(Sha1OfNothing)

\* hash.Hash.Sum(b) appends the current digest to b: nothing was written to
\* the item's hash, so the key's own bytes are followed by Sha1OfNothing.
keyToFileName(key) == EncodeToString(key \o Sha1OfNothing)

\* newItem(pool, key): the Item's key and file name (its hash is new, and
\* nothing is ever written to it).
newItem(key) == [key |-> key, fileName |-> keyToFileName(key)]

\* The keys an Item is built for: every string of "a" and "b" up to MaxKeyLen.
KeyStrings == UNION {[1..n -> {97, 98}] : n \in 0..MaxKeyLen}

\* The keys whose entries are read and written: "a" and "b".
Keys == {<<97>>, <<98>>}

\* newItem: item.fileName = item.keyToFileName(key), for every key of the model.
fileName == [k \in KeyStrings |-> newItem(k).fileName]

\* filepath.Join(pool.dirPath, fileName): names are relative to the pool directory.
GetFilePath(key) == fileName[key]

\* Names of the pool directory that are no key's file: "0link", "extra_data",
\* "short" and "sub".
LinkName == <<48, 108, 105, 110, 107>>
ExtraName == <<101, 120, 116, 114, 97, 95, 100, 97, 116, 97>>
ShortName == <<115, 104, 111, 114, 116>>
SubName == <<115, 117, 98>>
StrayNames == {LinkName, ExtraName, ShortName, SubName}

\* The pool directory itself, pool.dirPath: ".".
dirPath == <<46>>

Names == {GetFilePath(k) : k \in Keys} \cup StrayNames \cup {dirPath}

\* Byte-wise order of names, the order of ioutil.ReadDir.
NameLess(a, b) ==
    \E i \in 1..(Min(Len(a), Len(b)) + 1) :
        /\ \A j \in 1..(i - 1) : a[j] = b[j]
        /\ IF i > Len(a) THEN i <= Len(b)
           ELSE i <= Len(b) /\ a[i] < b[i]

RECURSIVE SortNames(_)
SortNames(S) ==
    IF S = {} THEN <<>>
    ELSE Bind(CHOOSE x \in S : \A y \in S \ {x} : NameLess(x, y), LAMBDA m :
            <<m>> \o SortNames(S \ {m}))

\* ------------------------------------------------------ the directory
\* os.Stat, os.OpenFile follow a symbolic link; os.Remove does not.
Target(d, name) == IF d[name].kind = "link" THEN d[name].to ELSE name

Lookup(d, name) == d[Target(d, name)]

\* os.Stat(name): err == nil && info.Mode().IsRegular()
StatIsRegular(d, name) == Lookup(d, name).kind = "file"

\* os.OpenFile that gives a handle on a name that holds nothing.
OpenFile_NoCheck(d, name, flag) == [h |-> Target(d, name), err |-> Nil]

\* os.OpenFile(name, flag, perm) without O_CREATE: the handle is the name of
\* the file opened.
OpenFile(d, name, flag) ==
    Bind(Lookup(d, name).kind, LAMBDA kind :
        IF kind = "none" THEN [h |-> name, err |-> ENOENT]
        ELSE IF kind = "dir" /\ flag # "O_RDONLY" THEN [h |-> name, err |-> EISDIR]
        ELSE IF EACCES \in Lookup(d, name).faults THEN [h |-> name, err |-> EACCES]
        ELSE [h |-> Target(d, name), err |-> Nil])

\* os.OpenFile(name, O_RDWR|O_CREATE, perm): an existing file keeps its content.
OpenFileCreateTrunc_NoTrunc(d, name) ==
    Bind(Target(d, name), LAMBDA t :
        IF d[t].kind = "dir" THEN [d |-> d, h |-> name, err |-> EISDIR]
        ELSE IF d[t].kind = "file" THEN [d |-> d, h |-> t, err |-> Nil]
        ELSE [d |-> [d EXCEPT ![t] = EmptyFile], h |-> t, err |-> Nil])

\* os.OpenFile(name, O_RDWR|O_CREATE|O_TRUNC, perm)
OpenFileCreateTrunc(d, name) ==
    Bind(Target(d, name), LAMBDA t :
        IF d[t].kind = "dir" THEN [d |-> d, h |-> name, err |-> EISDIR]
        ELSE IF EACCES \in d[t].faults THEN [d |-> d, h |-> name, err |-> EACCES]
        ELSE [d |-> [d EXCEPT ![t] = [EmptyFile EXCEPT !.faults = d[t].faults]],
              h |-> t, err |-> Nil])

\* os.Remove that does not mind the name being absent.
Remove_Silent(d, name) == [d |-> [d EXCEPT ![name] = NoEntry], err |-> Nil]

\* The error os.Remove meets on the entry f, or nil.
RemoveFails(f) ==
    IF EPERM \in f.faults THEN EPERM ELSE IF EBUSY \in f.faults THEN EBUSY ELSE Nil

\* os.Remove(name)
Remove(d, name) ==
    IF d[name].kind = "none" THEN [d |-> d, err |-> ENOENT]
    ELSE IF RemoveFails(d[name]) # Nil THEN [d |-> d, err |-> RemoveFails(d[name])]
    ELSE [d |-> [d EXCEPT ![name] = NoEntry], err |-> Nil]

\* Where the files are kept that were removed while some goroutine had them
\* open: they have no name in the directory, and live until they are closed.
OrphanNames == {<<0, g>> : g \in 1..MaxProcs}

\* ioutil.ReadDir(dirPath): the entries, sorted by name, or the error of a
\* directory that cannot be listed.
ReadDir(d) ==
    IF EACCES \in d[dirPath].faults THEN [files |-> <<>>, err |-> EACCES]
    ELSE [files |-> SortNames({n \in DOMAIN d \ ({dirPath} \cup OrphanNames) :
                                d[n].kind # "none"}),
          err |-> Nil]

\* The directory d with the file of handle h replaced by r.f; r.err is kept.
Stored(d, h, r) == [d |-> [d EXCEPT ![h] = r.f], h |-> h, err |-> r.err]

\* file.Create after the file is opened: the signature, then an empty payload.
createContent(f, signature) ==
    Bind(setSignature(f, signature), LAMBDA s :
        IF s.err # Nil THEN s ELSE setData(s.f, <<>>))

\* file.Create(name, perm, signature)
Create(d, name, signature) ==
    Bind(OpenFileCreateTrunc(d, name), LAMBDA o :
        IF o.err # Nil THEN o ELSE Stored(o.d, o.h, createContent(o.d[o.h], signature)))

\* file.Open(name, perm, signature)
Open(d, name) == OpenFile(d, name, "O_RDWR")

\* file.OpenRead(name, signature)
OpenRead(d, name) == OpenFile(d, name, "O_RDONLY")

\* ------------------------------------------------------------- Item
\* DefaultItemFileSignature is nil: newFile takes DefaultSignature.
ItemSignature == DefaultSignature

\* err, or nil, as the package's error of the given kind
wrap(kind, err) == IF err # Nil THEN newError(kind, err) ELSE NoError

isHit(d, key) == StatIsRegular(d, GetFilePath(key))

\* Item.get: the error and what the sink has received.
get(d, key) ==
    Bind(Open(d, GetFilePath(key)), LAMBDA o :
        IF o.err # Nil THEN [err |-> newError(ErrFileOpening, o.err), out |-> <<>>]
        ELSE Bind(getData(d[o.h]), LAMBDA r :
                [err |-> wrap(ErrFileReading, r.err), out |-> r.out]))

openOrCreateFile(d, filePath) ==
    IF StatIsRegular(d, filePath)
    THEN Bind(Open(d, filePath), LAMBDA o :
            [d |-> d, h |-> o.h, err |-> wrap(ErrFileOpening, o.err)])
    ELSE Bind(Create(d, filePath, ItemSignature), LAMBDA c :
            [d |-> c.d, h |-> c.h, err |-> wrap(ErrFileWriting, c.err)])

\* Item.set(from) for a reader from
setFrom(d, key, from) ==
    Bind(openOrCreateFile(d, GetFilePath(key)), LAMBDA o :
        IF o.err # NoError THEN [d |-> o.d, err |-> o.err]
        ELSE Bind(setDataFrom(o.d[o.h], from), LAMBDA w :
                [d |-> [o.d EXCEPT ![o.h] = w.f], err |-> wrap(ErrFileWriting, w.err)]))

\* Item.set(bytes.NewBuffer(from))
set(d, key, from) == setFrom(d, key, NewBuffer(from))

\* expiresAt handing out the zero time of a failed GetExpiresAt.
expiresAt_ZeroTime(d, key) ==
    Bind(Open(d, GetFilePath(key)), LAMBDA o :
        IF o.err # Nil THEN [isNil |-> TRUE, t |-> 0, err |-> o.err]
        ELSE [isNil |-> FALSE, t |-> GetExpiresAt(d[o.h]).t, err |-> Nil])

\* Item.expiresAt: isNil when the *time.Time returned is nil.
expiresAt(d, key) ==
    Bind(Open(d, GetFilePath(key)), LAMBDA o :
        IF o.err # Nil THEN [isNil |-> TRUE, t |-> 0, err |-> o.err]
        ELSE Bind(GetExpiresAt(d[o.h]), LAMBDA e :
                IF e.err # Nil THEN [isNil |-> TRUE, t |-> 0, err |-> e.err]
                ELSE [isNil |-> FALSE, t |-> e.t, err |-> Nil]))

\* isExpired with <= for <: an entry expiring right now counts as expired.
isExpired_NotStrict(d, key, now_) ==
    Bind(expiresAt(d, key), LAMBDA e :
        IF ~e.isNil THEN [expired |-> e.t <= now_, err |-> NoError]
        ELSE [expired |-> FALSE, err |-> newError(ErrExpirationDataNotAvailable, e.err)])

\* isExpired taking an entry without expiration data for one that never
\* expires.
isExpired_NeverFails(d, key, now_) ==
    Bind(expiresAt(d, key), LAMBDA e :
        [expired |-> ~e.isNil /\ e.t < now_, err |-> NoError])

\* Item.isExpired at time.Now().UnixNano() = now_.
isExpired(d, key, now_) ==
    Bind(expiresAt(d, key), LAMBDA e :
        IF ~e.isNil THEN [expired |-> e.t < now_, err |-> NoError]
        ELSE [expired |-> FALSE, err |-> newError(ErrExpirationDataNotAvailable, e.err)])

\* setExpiresAt creating the file anew whatever is there.
setExpiresAt_AlwaysCreates(d, key, when) ==
    Bind(Create(d, GetFilePath(key), ItemSignature), LAMBDA o :
        IF o.err # Nil THEN [d |-> o.d, err |-> newError(ErrFileWriting, o.err)]
        ELSE Bind(SetExpiresAt(o.d[o.h], when), LAMBDA w :
                [d |-> [o.d EXCEPT ![o.h] = w.f],
                 err |-> IF w.err # Nil THEN newError(w.err, Nil) ELSE NoError]))

\* (an error of File.SetExpiresAt is returned as it is, not as one of the
\* package's kinds: it stands as its own kind)
setExpiresAt(d, key, when) ==
    Bind(openOrCreateFile(d, GetFilePath(key)), LAMBDA o :
        IF o.err # NoError THEN [d |-> o.d, err |-> o.err]
        ELSE Bind(SetExpiresAt(o.d[o.h], when), LAMBDA w :
                [d |-> [o.d EXCEPT ![o.h] = w.f],
                 err |-> IF w.err # Nil THEN newError(w.err, Nil) ELSE NoError]))

\* ------------------------------------------------------------- Pool
\* deleteItem reporting success without removing anything.
deleteItem_KeepsFile(d, key) == [d |-> d, ok |-> TRUE, err |-> Nil]

\* Pool.deleteItem: ok and err are the (bool, error) returned.
deleteItem(d, key) ==
    Bind(Remove(d, GetFilePath(key)), LAMBDA r :
        [d |-> r.d, ok |-> (r.err = Nil), err |-> r.err])

\* Pool.getItem: the directory it leaves (the item returned is the key's).
getItem(d, key, now_) ==
    IF isHit(d, key) /\ isExpired(d, key, now_).expired
    THEN deleteItem(d, key).d
    ELSE d

HasItem(d, key, now_) ==
    Bind(getItem(d, key, now_), LAMBDA d2 : [d |-> d2, hit |-> isHit(d2, key)])

\* walkStep keeping the error of the first removal that failed.
walkStep_FirstError(d, path, lastErr) ==
    Bind(OpenRead(d, path), LAMBDA o :
        IF o.err # Nil THEN [d |-> d, lastErr |-> lastErr]
        ELSE IF ~SignatureMatched(d[o.h], ItemSignature).matched
        THEN [d |-> d, lastErr |-> lastErr]
        ELSE Bind(Remove(d, path), LAMBDA r :
                [d |-> r.d, lastErr |-> IF lastErr # Nil THEN lastErr ELSE r.err]))

\* The body of walkOverCacheFiles' loop with Clear's callback, for one entry.
walkStep(d, path, lastErr) ==
    Bind(OpenRead(d, path), LAMBDA o :
        IF o.err # Nil THEN [d |-> d, lastErr |-> lastErr]
        ELSE IF ~SignatureMatched(d[o.h], ItemSignature).matched
        THEN [d |-> d, lastErr |-> lastErr]
        ELSE Bind(Remove(d, path), LAMBDA r :
                [d |-> r.d, lastErr |-> IF r.err # Nil THEN r.err ELSE lastErr]))

\* Pool.walkOverCacheFiles' loop with Clear's callback, over the entries left
\* to visit.
RECURSIVE walkOverCacheFiles(_, _, _)
walkOverCacheFiles(d, files, lastErr) ==
    IF Len(files) = 0 THEN [d |-> d, lastErr |-> lastErr]
    ELSE Bind(walkStep(d, Head(files), lastErr), LAMBDA w :
            walkOverCacheFiles(w.d, Tail(files), w.lastErr))

Clear(d) ==
    Bind(ReadDir(d), LAMBDA l :
        IF l.err # Nil THEN [d |-> d, ok |-> FALSE, err |-> l.err]
        ELSE Bind(walkOverCacheFiles(d, l.files, Nil), LAMBDA w :
                [d |-> w.d, ok |-> (w.lastErr = Nil), err |-> w.lastErr]))

PutForever(d, key, from) == set(d, key, from)

Put(d, key, from, expiresAt_) ==
    Bind(set(d, key, from), LAMBDA s :
        IF s.err # NoError THEN s ELSE setExpiresAt(s.d, key, expiresAt_))

\* ------------------------------------------------------------ inputs
\* Payloads given to an Item: empty, shorter than one buffer, longer than one.
Payloads == {<<>>, Fill(1, ShortLen), Fill(2, rwBufferSize + LongExtra)}

\* Payloads given to the Pool: two lengths within one buffer.
PoolPayloads == {Fill(1, ShortLen), Fill(2, ShortLen + 1)}

\* The key whose Item is exercised operation by operation: "b".
ItemKeys == {<<98>>}

\* The key all goroutines use, and the one written on a failing medium: "a".
SharedKeys == {<<97>>}

\* The clock (UnixNano) advances in quarters of a millisecond.
TickNs == Millisecond \div 4
StartNow == 2 * Millisecond
EndNow == StartNow + MaxTicks * TickNs

\* Expiration times given to Put and SetExpiresAt (UnixNano): the epoch, a
\* past instant, an instant between two milliseconds, a later instant.
Times == {0, Millisecond, StartNow + 2 * TickNs, 3 * Millisecond}

\* Those given to an Item's SetExpiresAt: also one whose millisecond count
\* takes two bytes.
ItemTimes == Times \cup {300 * Millisecond + TickNs}

\* ------------------------------------------------------ state machine
VARIABLES
    dir,    \* the pool directory: name -> entry
    now,    \* time.Now().UnixNano()
    last,   \* the last call completed: its arguments and what it returned
    written,\* the keys some Set, Put or PutForever has returned nil for
    procs,  \* goroutines: where each one is in its call
    locks   \* the mutexes: who holds each one

vars == <<dir, now, last, written, procs, locks>>
conc == <<procs, locks>>

\* The record of a completed call op on key, before its results are filled in:
\* arg and when are the payload and the time given, had tells whether the
\* key's file was there when the call began, err, res, out and t are the
\* error, the boolean and the time returned and what the sink received (for
\* Clear: the names it found in the directory).
Op(op, key) ==
    [op |-> op, key |-> key, arg |-> <<>>, when |-> 0, had |-> FALSE,
     err |-> NoError, res |-> FALSE, out |-> <<>>, t |-> 0]

\* A file at key "b"'s path that no Item wrote: the nine bytes "not cache"
\* (the ninth, 101, is the first byte of the expiration field).
ForeignSig == <<110, 111, 116, 32, 99, 97, 99, 104>>
ForeignFile == [EmptyFile EXCEPT !.sig = ForeignSig, !.exp = <<101>>]

\* The pool directory at the start: a symbolic link "0link" to key "a"'s
\* file, an empty file, a 3-byte file "#/C", a subdirectory and ForeignFile.
InitDir ==
    [n \in Names |->
        IF n = LinkName THEN SymLink(GetFilePath(<<97>>))
        ELSE IF n = ExtraName THEN EmptyFile
        ELSE IF n = ShortName THEN [EmptyFile EXCEPT !.sig = <<35, 47, 67>>]
        ELSE IF n = SubName \/ n = dirPath THEN SubDir
        ELSE IF n = GetFilePath(<<98>>) THEN ForeignFile
        ELSE NoEntry]

NoProcs == <<>>
NoLocks == <<>>

Init ==
    /\ dir = InitDir
    /\ now = StartNow
    /\ last = Op("NewPool", <<>>)
    /\ written = {}
    /\ procs = NoProcs
    /\ locks = NoLocks

\* ---- Item methods, each called on a fresh item of the pool
ItemIsHit(K) ==
    \E k \in K :
        /\ last' = [Op("IsHit", k) EXCEPT !.res = isHit(dir, k)]
        /\ UNCHANGED <<dir, now, written, conc>>

ItemGet(K) ==
    \E k \in K : \E r \in {get(dir, k)} :
        /\ last' = [Op("Get", k) EXCEPT !.err = r.err, !.out = r.out]
        /\ UNCHANGED <<dir, now, written, conc>>

ItemSet(K, P) ==
    \E k \in K, p \in P : \E r \in {set(dir, k, p)} :
        /\ dir' = r.d
        /\ last' = [Op("Set", k) EXCEPT !.arg = p, !.had = isHit(dir, k), !.err = r.err]
        /\ written' = IF r.err = NoError THEN written \cup {k} ELSE written
        /\ UNCHANGED <<now, conc>>

ItemIsExpired(K) ==
    \E k \in K : \E r \in {isExpired(dir, k, now)} :
        /\ last' = [Op("IsExpired", k) EXCEPT !.res = r.expired, !.err = r.err]
        /\ UNCHANGED <<dir, now, written, conc>>

ItemExpiresAt(K) ==
    \E k \in K : \E r \in {expiresAt(dir, k)} :
        /\ last' = [Op("ExpiresAt", k) EXCEPT !.res = ~r.isNil, !.t = r.t]
        /\ UNCHANGED <<dir, now, written, conc>>

ItemSetExpiresAt(K, T) ==
    \E k \in K, t \in T : \E r \in {setExpiresAt(dir, k, t)} :
        /\ dir' = r.d
        /\ last' = [Op("SetExpiresAt", k) EXCEPT !.when = t, !.had = isHit(dir, k),
                                                !.err = r.err]
        /\ UNCHANGED <<now, written, conc>>

\* Item.Set given a reader that hands its bytes out in its own way.
ItemSetFrom(K, R) ==
    \E k \in K, rd \in R : \E r \in {setFrom(dir, k, rd)} :
        /\ dir' = r.d
        /\ last' = [Op("Set", k) EXCEPT !.arg = rd.in, !.had = isHit(dir, k), !.err = r.err]
        /\ written' = IF r.err = NoError THEN written \cup {k} ELSE written
        /\ UNCHANGED <<now, conc>>

\* ---- package file, called directly
FileCreate(K) ==
    \E k \in K : \E r \in {Create(dir, GetFilePath(k), ItemSignature)} :
        /\ dir' = r.d
        /\ last' = [Op("Create", k) EXCEPT !.had = isHit(dir, k), !.err = newError(r.err, Nil)]
        /\ UNCHANGED <<now, written, conc>>

\* ---- Pool methods
PoolGetItem(K) ==
    \E k \in K :
        /\ dir' = getItem(dir, k, now)
        /\ last' = [Op("GetItem", k) EXCEPT !.had = isHit(dir, k)]
        /\ UNCHANGED <<now, written, conc>>

PoolHasItem(K) ==
    \E k \in K : \E r \in {HasItem(dir, k, now)} :
        /\ dir' = r.d
        /\ last' = [Op("HasItem", k) EXCEPT !.had = isHit(dir, k), !.res = r.hit]
        /\ UNCHANGED <<now, written, conc>>

PoolPut(K, P, T) ==
    \E k \in K, p \in P, t \in T : \E r \in {Put(dir, k, p, t)} :
        /\ dir' = r.d
        /\ last' = [Op("Put", k) EXCEPT !.arg = p, !.when = t, !.err = r.err]
        /\ written' = IF r.err = NoError THEN written \cup {k} ELSE written
        /\ UNCHANGED <<now, conc>>

PoolPutForever(K, P) ==
    \E k \in K, p \in P : \E r \in {PutForever(dir, k, p)} :
        /\ dir' = r.d
        /\ last' = [Op("PutForever", k) EXCEPT !.arg = p, !.err = r.err]
        /\ written' = IF r.err = NoError THEN written \cup {k} ELSE written
        /\ UNCHANGED <<now, conc>>

PoolDeleteItem(K) ==
    \E k \in K : \E r \in {deleteItem(dir, k)} :
        /\ dir' = r.d
        /\ last' = [Op("DeleteItem", k) EXCEPT !.had = isHit(dir, k), !.res = r.ok,
                                              !.err = newError(r.err, Nil)]
        /\ UNCHANGED <<now, written, conc>>

PoolClear ==
    \E r \in {Clear(dir)} :
        /\ dir' = r.d
        /\ last' = [Op("Clear", <<>>) EXCEPT !.res = r.ok, !.err = newError(r.err, Nil),
                                             !.out = ReadDir(dir).files]
        /\ UNCHANGED <<now, written, conc>>

\* ---- the environment
\* Time passes.
Tick ==
    /\ now < EndNow
    /\ now' = now + TickNs
    /\ UNCHANGED <<dir, last, written, conc>>

\* The byte b with every bit inverted.
Flip(b) == 255 - b

\* The data of a file changed behind the codec's back: its first or its last
\* byte is inverted.
Corruptions(data) ==
    {[data EXCEPT ![i] = Flip(data[i])] : i \in {1, Len(data)} \cap DOMAIN data}

\* Something else than the cache writes into the Data region of a key's file,
\* right after a Set.
Corrupt(K) ==
    \E k \in K : \E c \in Corruptions(dir[GetFilePath(k)].data) :
        /\ last.op = "Set" /\ last.key = k /\ last.err = NoError
        /\ dir[GetFilePath(k)].kind = "file"
        /\ dir' = [dir EXCEPT ![GetFilePath(k)].data = c]
        /\ last' = Op("Corrupt", k)
        /\ UNCHANGED <<now, written, conc>>

\* The fields whose WriteAt the environment may fail.
FaultFields == {"data", "exp"}

\* The medium under a key's file starts or stops failing writes.
Fault(K) ==
    \E k \in K, F \in SUBSET FaultFields :
        /\ dir[GetFilePath(k)].kind = "file"
        /\ dir[GetFilePath(k)].faults # F
        /\ dir' = [dir EXCEPT ![GetFilePath(k)].faults = F]
        /\ last' = Op("Fault", k)
        /\ UNCHANGED <<now, written, conc>>

\* ---- the Pool, used by one goroutine
Next ==
    \/ PoolGetItem(Keys)
    \/ PoolHasItem(Keys)
    \/ PoolPut(Keys, PoolPayloads, Times)
    \/ PoolPutForever(Keys, PoolPayloads)
    \/ PoolDeleteItem(Keys)
    \/ PoolClear
    \/ Tick

Spec == Init /\ [][Next]_vars

\* ---- one Item, used by one goroutine
NextItem ==
    \/ ItemIsHit(ItemKeys)
    \/ ItemGet(ItemKeys)
    \/ ItemSet(ItemKeys, Payloads)
    \/ ItemIsExpired(ItemKeys)
    \/ ItemExpiresAt(ItemKeys)
    \/ ItemSetExpiresAt(ItemKeys, ItemTimes)
    \/ FileCreate(ItemKeys)
    \/ PoolDeleteItem(ItemKeys)
    \/ Corrupt(ItemKeys)
    \/ Tick

SpecItem == Init /\ [][NextItem]_vars

\* ---- an Item whose expiration is set, also to the epoch, and a Pool that is
\* ---- asked for its key
NextUnset ==
    \/ ItemSet(ItemKeys, PoolPayloads)
    \/ ItemSetExpiresAt(ItemKeys, Times)
    \/ ItemIsExpired(ItemKeys)
    \/ ItemExpiresAt(ItemKeys)
    \/ PoolGetItem(ItemKeys)
    \/ PoolDeleteItem(ItemKeys)
    \/ Tick

SpecUnset == Init /\ [][NextUnset]_vars

\* ---- the Pool writing one key on a medium that may fail
NextFaulty ==
    \/ PoolPut(SharedKeys, PoolPayloads, Times)
    \/ PoolGetItem(SharedKeys)
    \/ Fault(SharedKeys)
    \/ Tick

SpecFaulty == Init /\ [][NextFaulty]_vars

\* ---- one Item, set from readers of several habits
\* The bytes 1, 2, ..., n.
Ramp(n) == [i \in 1..n |-> i]

SourcePayloads ==
    {Ramp(ShortLen), Ramp(ShortLen + 2), Ramp(rwBufferSize), Ramp(rwBufferSize + LongExtra)}

\* How a reader splits its bytes: as asked for; a short read, then as asked
\* for; two short reads of different lengths, then as asked for.
Splits == {<<>>, <<ShortLen>>, <<ShortLen + 1, ShortLen>>}

Sources ==
    {NewReader(in, sizes, e) : in \in SourcePayloads, sizes \in Splits, e \in BOOLEAN}

NextSource ==
    \/ ItemSetFrom(ItemKeys, Sources)
    \/ ItemGet(ItemKeys)
    \/ PoolDeleteItem(ItemKeys)

SpecSource == Init /\ [][NextSource]_vars

\* ---- the Pool cleared in a directory whose entries may resist
\* What may go wrong with a key's file: it cannot be opened, or it cannot be
\* removed (for one of two reasons). What may go wrong with the directory: it
\* cannot be listed.
FileFaults == {{}, {EACCES}, {EPERM}, {EBUSY}}
DirFaults == {{}, {EACCES}}

\* The environment changes what fails on an entry that exists.
Hinder(N, F) ==
    \E n \in N, f \in F :
        /\ dir[n].kind \in {"file", "dir"}
        /\ dir[n].faults # f
        /\ dir' = [dir EXCEPT ![n].faults = f]
        /\ last' = Op("Hinder", n)
        /\ UNCHANGED <<now, written, conc>>

\* Something else than the cache makes a directory where a key's file would be.
MakeDir(K) ==
    \E k \in K :
        /\ dir[GetFilePath(k)].kind = "none"
        /\ dir' = [dir EXCEPT ![GetFilePath(k)] = SubDir]
        /\ last' = Op("MakeDir", k)
        /\ UNCHANGED <<now, written, conc>>

ClearPayloads == {Fill(1, ShortLen)}

NextClear ==
    \/ PoolPutForever(Keys, ClearPayloads)
    \/ PoolDeleteItem(Keys)
    \/ PoolClear
    \/ Hinder({GetFilePath(k) : k \in Keys}, FileFaults)
    \/ Hinder({dirPath}, DirFaults)

SpecClear == Init /\ [][NextClear]_vars

\* ------------------------------------------------- goroutines
\* Calls run by several goroutines, one file-system call at a time. A file
\* handle is the name the file was opened under or, once the file is removed
\* with the handle open, the orphan it has become.
Goroutines == 1..MaxProcs

\* The Items: the one every goroutine shares, and the one a goroutine gets
\* from pool.GetItem for itself.
SharedItem == <<>>
OwnItem(g) == <<g>>

\* A goroutine between two calls. op is the method of Item it runs (or the
\* Pool's GetItem, DeleteItem or Clear), call the method of Pool that runs
\* op on an Item of its own (Put, PutForever), arg with sizes and eof the
\* reader given to Set, h the file it has open.
Idle ==
    [op |-> "idle", call |-> "", key |-> <<>>, arg |-> <<>>, sizes |-> <<>>, eof |-> FALSE,
     when |-> 0, item |-> SharedItem, pc |-> "idle", h |-> <<>>, st |-> <<>>,
     err |-> NoError, res |-> FALSE, out |-> <<>>, t |-> 0]

\* sync.Mutex: 0 when unlocked, else the goroutine holding it.
Unlocked == [pool |-> 0, item |-> [i \in {SharedItem} \cup {OwnItem(g) : g \in Goroutines} |-> 0]]

\* Where a method of Item starts once it holds the item's mutex.
Entry(op) ==
    CASE op = "IsHit" -> "isHit"
      [] op \in {"Set", "SetExpiresAt"} -> "stat"
      [] OTHER -> "open"

\* The goroutine g is about to take the step pc.
At(g, pc) == procs[g].pc = pc

\* procs with g's record changed to rec.
Move(g, rec) == procs' = [procs EXCEPT ![g] = rec]

\* The directory with room for the orphans.
WithOrphans(d) ==
    [n \in DOMAIN d \cup OrphanNames |-> IF n \in DOMAIN d THEN d[n] ELSE NoEntry]

\* os.Remove on a file that is open: the file lives on without a name. d is
\* the directory before the removals, d2 after them, ps the goroutines; the
\* handles on a removed file follow it to a free orphan place.
RECURSIVE Unlinked(_, _, _)
Unlinked(d, d2, ps) ==
    IF \A n \in DOMAIN d : ~(d[n].kind = "file" /\ d2[n].kind = "none"
                              /\ \E g \in DOMAIN ps : ps[g].h = n)
    THEN [d |-> d2, ps |-> ps]
    ELSE Bind(CHOOSE n \in DOMAIN d : d[n].kind = "file" /\ d2[n].kind = "none"
                                      /\ \E g \in DOMAIN ps : ps[g].h = n, LAMBDA n :
         Bind(CHOOSE o \in OrphanNames : d2[o].kind = "none", LAMBDA o :
            Unlinked(d, [d2 EXCEPT ![o] = d[n]],
                     [g \in DOMAIN ps |-> IF ps[g].h = n THEN [ps[g] EXCEPT !.h = o]
                                          ELSE ps[g]])))

\* os.File.Close: an orphan that no goroutine has open any more is gone.
Collected(d, ps) ==
    [n \in DOMAIN d |->
        IF n \in OrphanNames /\ \A g \in DOMAIN ps : ps[g].h # n THEN NoEntry ELSE d[n]]

\* The directory and the goroutines after a step of g that has turned the
\* directory d into d2 and g's record into rec.
Settle(d, d2, ps, g, rec) ==
    Bind(Unlinked(d, d2, [ps EXCEPT ![g] = rec]), LAMBDA u :
        [d |-> Collected(u.d, u.ps), ps |-> u.ps])

\* g's step leaves the directory d2 and g's record rec.
Step(g, d2, rec) ==
    \E u \in {Settle(dir, d2, procs, g, rec)} :
        /\ dir' = u.d
        /\ procs' = u.ps

\* g calls pool.GetItem(k) and will call op on the item returned.
CallPool(g, Ops, K, P) ==
    \E op \in Ops, k \in K, p \in P :
        /\ At(g, "idle")
        /\ Move(g, [Idle EXCEPT !.op = op, !.key = k, !.item = OwnItem(g), !.pc = "GetItem",
                                !.arg = IF op = "Set" THEN p ELSE <<>>])
        /\ UNCHANGED <<dir, now, last, written, locks>>

\* g calls op on the item all goroutines share.
CallItem(g, Ops, K, P, T) ==
    \E op \in Ops, k \in K, p \in P, t \in T :
        /\ At(g, "idle")
        /\ Move(g, [Idle EXCEPT !.op = op, !.key = k, !.item = SharedItem, !.pc = "Lock",
                                !.arg = IF op = "Set" THEN p ELSE <<>>,
                                !.when = IF op = "SetExpiresAt" THEN t ELSE 0])
        /\ UNCHANGED <<dir, now, last, written, locks>>

\* g calls pool.Put(k, p, t) or pool.PutForever(k, p): Set and, for Put,
\* SetExpiresAt on an Item of its own.
CallPut(g, Calls, K, P, T) ==
    \E c \in Calls, k \in K, p \in P, t \in T :
        /\ At(g, "idle")
        /\ Move(g, [Idle EXCEPT !.op = "Set", !.call = c, !.key = k, !.item = OwnItem(g),
                                !.pc = "Lock", !.arg = p,
                                !.when = IF c = "Put" THEN t ELSE 0])
        /\ UNCHANGED <<dir, now, last, written, locks>>

\* g calls Set(r) on the item all goroutines share, r any io.Reader.
CallSetFrom(g, K, R) ==
    \E k \in K, r \in R :
        /\ At(g, "idle")
        /\ Move(g, [Idle EXCEPT !.op = "Set", !.key = k, !.item = SharedItem, !.pc = "Lock",
                                !.arg = r.in, !.sizes = r.sizes, !.eof = r.eofWithData])
        /\ UNCHANGED <<dir, now, last, written, locks>>

\* g calls pool.Put(k, r, t) or pool.PutForever(k, r), r any io.Reader.
CallPutFrom(g, Calls, K, R, T) ==
    \E c \in Calls, k \in K, r \in R, t \in T :
        /\ At(g, "idle")
        /\ Move(g, [Idle EXCEPT !.op = "Set", !.call = c, !.key = k, !.item = OwnItem(g),
                                !.pc = "Lock", !.arg = r.in, !.sizes = r.sizes,
                                !.eof = r.eofWithData,
                                !.when = IF c = "Put" THEN t ELSE 0])
        /\ UNCHANGED <<dir, now, last, written, locks>>

\* Pool.GetItem, Pool.DeleteItem, Pool.Clear: pool.mutex.Lock()
PoolLock(g) ==
    /\ At(g, "GetItem")
    /\ locks.pool = 0
    /\ locks' = [locks EXCEPT !.pool = g]
    /\ Move(g, [procs[g] EXCEPT !.pc = IF procs[g].op = "DeleteItem" THEN "delete"
                                       ELSE IF procs[g].op = "Clear" THEN "clear"
                                       ELSE "getItem"])
    /\ UNCHANGED <<dir, now, last, written>>

\* One file-system call of Pool.getItem by the goroutine whose record is p:
\* os.Stat in item.IsHit, file.Open and File.GetExpiresAt in item.IsExpired,
\* os.Remove in pool.deleteItem. (The item's own mutex is new and free.)
getItemStep(d, p, now_) ==
    CASE p.pc = "getItem" ->
            [d |-> d, p |-> [p EXCEPT !.pc = IF isHit(d, p.key) THEN "getOpen"
                                             ELSE "poolUnlock"]]
      [] p.pc = "getOpen" ->
            Bind(Open(d, GetFilePath(p.key)), LAMBDA o :
                [d |-> d, p |-> IF o.err # Nil THEN [p EXCEPT !.pc = "poolUnlock"]
                                ELSE [p EXCEPT !.pc = "getExp", !.h = o.h]])
      [] p.pc = "getExp" ->
            Bind(GetExpiresAt(d[p.h]), LAMBDA e :
                [d |-> d, p |-> [p EXCEPT !.h = <<>>,
                                          !.pc = IF e.err = Nil /\ e.t < now_ THEN "getDelete"
                                                 ELSE "poolUnlock"]])
      [] p.pc = "getDelete" ->
            [d |-> deleteItem(d, p.key).d, p |-> [p EXCEPT !.pc = "poolUnlock"]]

GetItemStep(g) ==
    /\ procs[g].pc \in {"getItem", "getOpen", "getExp", "getDelete"}
    /\ \E r \in {getItemStep(dir, procs[g], now)} : Step(g, r.d, r.p)
    /\ UNCHANGED <<now, last, written, locks>>

\* Pool.DeleteItem: deleteItem
DeleteItemStep(g) ==
    /\ At(g, "delete")
    /\ \E r \in {deleteItem(dir, procs[g].key)} :
        Step(g, r.d, [procs[g] EXCEPT !.pc = "poolUnlock", !.res = r.ok,
                                      !.err = newError(r.err, Nil)])
    /\ UNCHANGED <<now, last, written, locks>>

\* Pool.Clear: the walk over the directory
ClearStep(g) ==
    /\ At(g, "clear")
    /\ \E r \in {Clear(dir)} :
        Step(g, r.d, [procs[g] EXCEPT !.pc = "poolUnlock", !.res = r.ok,
                                      !.err = newError(r.err, Nil)])
    /\ UNCHANGED <<now, last, written, locks>>

\* The deferred pool.mutex.Unlock(): GetItem hands out the item, whose method
\* is called next; DeleteItem and Clear return.
PoolUnlock(g) ==
    /\ At(g, "poolUnlock")
    /\ locks' = [locks EXCEPT !.pool = 0]
    /\ Move(g, [procs[g] EXCEPT !.pc = IF procs[g].op \in {"GetItem", "DeleteItem", "Clear"}
                                       THEN "return" ELSE "Lock"])
    /\ UNCHANGED <<dir, now, last, written>>

\* Every public method of Item: i.mutex.Lock()
ItemLock(g) ==
    /\ At(g, "Lock")
    /\ locks.item[procs[g].item] = 0
    /\ locks' = [locks EXCEPT !.item[procs[g].item] = g]
    /\ Move(g, [procs[g] EXCEPT !.pc = Entry(procs[g].op)])
    /\ UNCHANGED <<dir, now, last, written>>

\* Item.isHit: os.Stat
IsHitStep(g) ==
    /\ At(g, "isHit")
    /\ Move(g, [procs[g] EXCEPT !.pc = "return", !.res = isHit(dir, procs[g].key)])
    /\ UNCHANGED <<dir, now, last, written, locks>>

\* What is left of Item.set or Item.setExpiresAt once the file is open.
AfterOpen(op) == IF op = "Set" THEN "write" ELSE "writeExp"

\* The goroutine of record p with the file h open, about to run what is left
\* of its method.
Opened(p, h) ==
    [p EXCEPT !.h = h, !.pc = AfterOpen(p.op),
              !.st = IF p.op = "Set" THEN setDataStartFrom(NewReader(p.arg, p.sizes, p.eof))
                     ELSE <<>>]

\* Every failure reported as a failure to write.
Failed_AsWriting(p, err) == [p EXCEPT !.pc = "return", !.err = newError(ErrFileWriting, err.cause)]

\* g leaving its method with the error err.
Failed(p, err) == [p EXCEPT !.pc = "return", !.err = err]

\* One file-system call of Item.openOrCreateFile by the goroutine whose
\* record is p: os.Stat, then either file.Open, or file.Create's os.OpenFile,
\* signature write and checksum write. The directory and the record it leaves.
openOrCreateStep(d, p) ==
    CASE p.pc = "stat" ->
            [d |-> d, p |-> [p EXCEPT !.pc = IF StatIsRegular(d, GetFilePath(p.key))
                                             THEN "openw" ELSE "create"]]
      [] p.pc = "openw" ->
            Bind(Open(d, GetFilePath(p.key)), LAMBDA o :
                [d |-> d, p |-> IF o.err # Nil THEN Failed(p, newError(ErrFileOpening, o.err))
                                ELSE Opened(p, o.h)])
      [] p.pc = "create" ->
            Bind(OpenFileCreateTrunc(d, GetFilePath(p.key)), LAMBDA o :
                [d |-> o.d, p |-> IF o.err # Nil THEN Failed(p, newError(ErrFileWriting, o.err))
                                  ELSE [p EXCEPT !.pc = "sig", !.h = o.h]])
      [] p.pc = "sig" ->
            Bind(setSignature(d[p.h], ItemSignature), LAMBDA w :
                [d |-> [d EXCEPT ![p.h] = w.f],
                 p |-> IF w.err # Nil THEN Failed(p, newError(ErrFileWriting, w.err))
                       ELSE [p EXCEPT !.pc = "csum"]])
      [] p.pc = "csum" ->
            Bind(setData(d[p.h], <<>>), LAMBDA w :
                [d |-> [d EXCEPT ![p.h] = w.f],
                 p |-> IF w.err # Nil THEN Failed(p, newError(ErrFileWriting, w.err))
                       ELSE Opened(p, p.h)])

OpenOrCreateFile(g) ==
    /\ procs[g].pc \in {"stat", "openw", "create", "sig", "csum"}
    /\ \E r \in {openOrCreateStep(dir, procs[g])} :
        /\ dir' = r.d
        /\ Move(g, r.p)
    /\ UNCHANGED <<now, last, written, locks>>

\* file.Open in Item.get and Item.expiresAt
OpenStep(g) ==
    /\ At(g, "open")
    /\ \E o \in {Open(dir, GetFilePath(procs[g].key))} :
        Move(g, IF o.err = Nil
                THEN [procs[g] EXCEPT !.h = o.h,
                        !.pc = IF procs[g].op = "Get" THEN "read" ELSE "readExp",
                        !.st = IF procs[g].op = "Get" THEN getDataStart ELSE <<>>]
                ELSE [procs[g] EXCEPT !.pc = "return",
                        !.err = IF procs[g].op = "Get" THEN newError(ErrFileOpening, o.err)
                                ELSE IF procs[g].op = "IsExpired"
                                THEN newError(ErrExpirationDataNotAvailable, o.err)
                                ELSE NoError])
    /\ UNCHANGED <<dir, now, last, written, locks>>

\* File.getData: one ReadAt of the loop
ReadStep(g) ==
    /\ At(g, "read")
    /\ \E r \in {getDataStep(dir[procs[g].h], procs[g].st)} :
        Move(g, [procs[g] EXCEPT !.st = r.st, !.pc = IF r.done THEN "sum" ELSE "read"])
    /\ UNCHANGED <<dir, now, last, written, locks>>

\* File.getData: the ReadAt of the stored digest, and the comparison
SumStep(g) ==
    /\ At(g, "sum")
    /\ \E r \in {getDataFinish(dir[procs[g].h], procs[g].st)} :
        Move(g, [procs[g] EXCEPT !.pc = "return", !.st = <<>>, !.out = r.out,
                                 !.err = wrap(ErrFileReading, r.err)])
    /\ UNCHANGED <<dir, now, last, written, locks>>

\* File.setData: one WriteAt of the loop or, the source exhausted, the WriteAt
\* of the digest
WriteStep(g) ==
    /\ At(g, "write")
    /\ \E r \in {setDataStep(dir[procs[g].h], procs[g].st)} :
        IF ~r.done
        THEN /\ dir' = [dir EXCEPT ![procs[g].h] = r.f]
             /\ Move(g, [procs[g] EXCEPT !.st = r.st])
        ELSE \E w \in {IF r.err # Nil THEN [f |-> r.f, err |-> r.err]
                       ELSE setDataFinish(r.f, r.st)} :
                /\ dir' = [dir EXCEPT ![procs[g].h] = w.f]
                /\ Move(g, [procs[g] EXCEPT !.pc = "return", !.st = <<>>,
                                            !.err = wrap(ErrFileWriting, w.err)])
    /\ UNCHANGED <<now, last, written, locks>>

\* ReadExpStep removing the file it finds expired, as Pool.getItem does.
ReadExpStep_Evicts(g) ==
    /\ At(g, "readExp")
    /\ \E e \in {GetExpiresAt(dir[procs[g].h])} :
        /\ dir' = IF e.err = Nil /\ e.t < now THEN deleteItem(dir, procs[g].key).d ELSE dir
        /\ Move(g, IF procs[g].op = "ExpiresAt"
                   THEN [procs[g] EXCEPT !.pc = "return", !.res = (e.err = Nil),
                                         !.t = IF e.err = Nil THEN e.t ELSE 0]
                   ELSE [procs[g] EXCEPT !.pc = "return", !.res = (e.err = Nil /\ e.t < now),
                           !.err = IF e.err = Nil THEN NoError
                                   ELSE newError(ErrExpirationDataNotAvailable, e.err)])
    /\ UNCHANGED <<now, last, written, locks>>

\* File.GetExpiresAt in Item.expiresAt, and what IsExpired or ExpiresAt
\* makes of it
ReadExpStep(g) ==
    /\ At(g, "readExp")
    /\ \E e \in {GetExpiresAt(dir[procs[g].h])} :
        Move(g, IF procs[g].op = "ExpiresAt"
                THEN [procs[g] EXCEPT !.pc = "return", !.res = (e.err = Nil),
                                      !.t = IF e.err = Nil THEN e.t ELSE 0]
                ELSE [procs[g] EXCEPT !.pc = "return", !.res = (e.err = Nil /\ e.t < now),
                        !.err = IF e.err = Nil THEN NoError
                                ELSE newError(ErrExpirationDataNotAvailable, e.err)])
    /\ UNCHANGED <<dir, now, last, written, locks>>

\* File.SetExpiresAt in Item.setExpiresAt
WriteExpStep(g) ==
    /\ At(g, "writeExp")
    /\ \E w \in {SetExpiresAt(dir[procs[g].h], procs[g].when)} :
        /\ dir' = [dir EXCEPT ![procs[g].h] = w.f]
        /\ Move(g, [procs[g] EXCEPT !.pc = "return",
                        !.err = IF w.err # Nil THEN newError(w.err, Nil) ELSE NoError])
    /\ UNCHANGED <<now, last, written, locks>>

\* Pool.Put has item.Set returned without error and goes on.
PutGoesOn(p) == p.call = "Put" /\ p.op = "Set" /\ p.err = NoError

\* Pool.Put between item.Set and item.SetExpiresAt: Set's deferred f.Close()
\* and i.mutex.Unlock().
PutNext(g) ==
    /\ At(g, "return")
    /\ PutGoesOn(procs[g])
    /\ locks' = [locks EXCEPT !.item[procs[g].item] = 0]
    /\ Step(g, dir, [procs[g] EXCEPT !.op = "SetExpiresAt", !.pc = "Lock", !.h = <<>>])
    /\ UNCHANGED <<now, last, written>>

\* The deferred f.Close() and i.mutex.Unlock(): the call returns.
Return(g) ==
    /\ At(g, "return")
    /\ ~PutGoesOn(procs[g])
    /\ locks' = [locks EXCEPT !.item[procs[g].item] = 0]
    /\ last' = [Op(IF procs[g].call # "" THEN procs[g].call ELSE procs[g].op, procs[g].key)
                 EXCEPT
                    !.arg = procs[g].arg, !.when = procs[g].when, !.err = procs[g].err,
                    !.res = procs[g].res, !.out = procs[g].out, !.t = procs[g].t]
    /\ written' = IF procs[g].err = NoError
                     /\ procs[g].op = (IF procs[g].call = "Put" THEN "SetExpiresAt" ELSE "Set")
                  THEN written \cup {procs[g].key} ELSE written
    /\ Step(g, dir, Idle)
    /\ UNCHANGED now

\* ---- a Pool shared by goroutines that read and write one existing key
\* What the key holds at the start, and what the goroutines write.
FirstPayload == Fill(1, ShortLen)
NextPayloads == {Fill(2, ShortLen + 1)}

\* The directory after pool.PutForever("a", FirstPayload).
InitDirPool == PutForever(InitDir, <<97>>, FirstPayload).d

InitPool ==
    /\ dir = WithOrphans(InitDirPool)
    /\ now = StartNow
    /\ last = Op("PutForever", <<97>>)
    /\ written = SharedKeys
    /\ procs = [g \in Goroutines |-> Idle]
    /\ locks = Unlocked

NextPool ==
    \E g \in Goroutines :
        \/ CallPool(g, {"Get", "Set"}, SharedKeys, NextPayloads)
        \/ PoolLock(g)
        \/ GetItemStep(g)
        \/ PoolUnlock(g)
        \/ ItemLock(g)
        \/ OpenOrCreateFile(g)
        \/ OpenStep(g)
        \/ ReadStep(g)
        \/ SumStep(g)
        \/ WriteStep(g)
        \/ Return(g)

SpecPool == InitPool /\ [][NextPool]_vars

\* ---- one Item shared by goroutines
\* Expiration times the goroutines give to SetExpiresAt: after the epoch's
\* first millisecond.
SharedTimes == Times \ {0}

\* The directory after item.Set and item.SetExpiresAt on key "a".
InitDirShared ==
    setExpiresAt(set(InitDir, <<97>>, Fill(2, ShortLen + 1)).d, <<97>>, 3 * Millisecond).d

InitShared ==
    /\ dir = WithOrphans(InitDirShared)
    /\ now = StartNow
    /\ last = [Op("SetExpiresAt", <<97>>) EXCEPT !.when = 3 * Millisecond]
    /\ written = SharedKeys
    /\ procs = [g \in Goroutines |-> Idle]
    /\ locks = Unlocked

NextShared ==
    \E g \in Goroutines :
        \/ CallItem(g, {"IsHit", "Get", "Set", "IsExpired", "ExpiresAt", "SetExpiresAt"},
                    SharedKeys, PoolPayloads, SharedTimes)
        \/ ItemLock(g)
        \/ IsHitStep(g)
        \/ OpenOrCreateFile(g)
        \/ OpenStep(g)
        \/ ReadStep(g)
        \/ SumStep(g)
        \/ WriteStep(g)
        \/ ReadExpStep(g)
        \/ WriteExpStep(g)
        \/ Return(g)

SpecShared == InitShared /\ [][NextShared]_vars

\* ---- a Pool shared by goroutines that read and write one key, absent at
\* the start, with payloads longer than one buffer
\* What the goroutines write: each one a payload of its own, all of one
\* length, of two buffers each.
TornPayload(g) == Fill(g + 1, rwBufferSize + LongExtra)
TornPayloads == {TornPayload(g) : g \in Goroutines}

InitTorn ==
    /\ dir = WithOrphans(InitDir)
    /\ now = StartNow
    /\ last = Op("NewPool", <<>>)
    /\ written = {}
    /\ procs = [g \in Goroutines |-> Idle]
    /\ locks = Unlocked

\* Every goroutine writes; the first one also reads.
Readers == {g \in Goroutines : g = 1}

NextTorn ==
    \/ \E g \in Readers : CallPool(g, {"Get"}, SharedKeys, {<<>>})
    \/ \E g \in Goroutines :
        \/ CallPut(g, {"PutForever"}, SharedKeys, {TornPayload(g)}, {0})
        \/ PoolLock(g)
        \/ GetItemStep(g)
        \/ PoolUnlock(g)
        \/ ItemLock(g)
        \/ OpenOrCreateFile(g)
        \/ OpenStep(g)
        \/ ReadStep(g)
        \/ SumStep(g)
        \/ WriteStep(g)
        \/ Return(g)

SpecTorn == InitTorn /\ [][NextTorn]_vars

\* ---- one Item shared by goroutines that set it, on a medium that may fail
\* What may go wrong with the key's file between two calls: it cannot be
\* opened, its data cannot be written, its checksum cannot be written.
SetFaults == {{}, {EACCES}, {"data"}, {"sum"}}

\* No call is running.
Quiet == \A g \in DOMAIN procs : procs[g].pc = "idle"

InitSet ==
    /\ dir = WithOrphans(InitDir)
    /\ now = StartNow
    /\ last = Op("NewPool", <<>>)
    /\ written = {}
    /\ procs = [g \in Goroutines |-> Idle]
    /\ locks = Unlocked

NextSet ==
    \/ Quiet /\ Hinder({GetFilePath(k) : k \in SharedKeys}, SetFaults)
    \/ Quiet /\ MakeDir(SharedKeys)
    \/ Quiet /\ PoolDeleteItem(SharedKeys)
    \/ \E g \in Goroutines :
        \/ CallItem(g, {"Set"}, SharedKeys, PoolPayloads \cup {<<>>}, {0})
        \/ ItemLock(g)
        \/ OpenOrCreateFile(g)
        \/ WriteStep(g)
        \/ Return(g)

SpecSet == InitSet /\ [][NextSet]_vars

\* ---- one Item shared by goroutines that set it from any reader and get it,
\* ---- under the scheduling Go gives them
\* The readers: a bytes.Buffer, a reader that gives its bytes in short
\* reads, and a reader whose first Read gives no byte and no error.
SlowSources ==
    {NewBuffer(Fill(1, ShortLen)),
     NewReader(Fill(2, ShortLen + 1), <<ShortLen>>, FALSE),
     NewReader(Fill(3, ShortLen), <<0>>, FALSE)}

NextSlow ==
    \E g \in Goroutines :
        \/ CallSetFrom(g, SharedKeys, SlowSources)
        \/ CallItem(g, {"Get"}, SharedKeys, {<<>>}, {0})
        \/ ItemLock(g)
        \/ OpenOrCreateFile(g)
        \/ OpenStep(g)
        \/ ReadStep(g)
        \/ SumStep(g)
        \/ WriteStep(g)
        \/ Return(g)

\* A goroutine inside a method is scheduled again and again (the Go
\* scheduler preempts), and a goroutine waiting for a sync.Mutex that is
\* unlocked again and again gets it (the mutex's starvation mode hands it to
\* the longest waiter). Nothing makes a goroutine call a method.
Scheduled(g) ==
    /\ WF_vars(OpenOrCreateFile(g) \/ OpenStep(g) \/ ReadStep(g) \/ SumStep(g)
                 \/ WriteStep(g) \/ Return(g))
    /\ SF_vars(ItemLock(g))

SpecSlow == InitSet /\ [][NextSlow]_vars /\ \A g \in Goroutines : Scheduled(g)

\* ---- a Pool whose key has expired, looked up while it is put again
\* The goroutine that calls Put; every goroutine calls GetItem and HasItem.
Writers == {g \in Goroutines : g = 1}

\* What the key holds at the start and what Put stores: the same length.
ExpiredPayload == Fill(1, ShortLen)
FreshPayloads == {Fill(2, ShortLen)}

\* The expiration Put gives: after every instant of the clock.
FutureTimes == {3 * Millisecond}

\* The directory after pool.Put("a", ExpiredPayload, t) for a t now past.
InitDirEvict == Put(InitDir, <<97>>, ExpiredPayload, Millisecond).d

InitEvict ==
    /\ dir = WithOrphans(InitDirEvict)
    /\ now = StartNow
    /\ last = [Op("Put", <<97>>) EXCEPT !.arg = ExpiredPayload, !.when = Millisecond]
    /\ written = SharedKeys
    /\ procs = [g \in Goroutines |-> Idle]
    /\ locks = Unlocked

NextEvict ==
    \/ \E g \in Writers : CallPut(g, {"Put"}, SharedKeys, FreshPayloads, FutureTimes)
    \/ \E g \in Goroutines :
        \/ CallPool(g, {"GetItem", "IsHit"}, SharedKeys, {<<>>})
        \/ PoolLock(g)
        \/ GetItemStep(g)
        \/ PoolUnlock(g)
        \/ ItemLock(g)
        \/ IsHitStep(g)
        \/ OpenOrCreateFile(g)
        \/ WriteStep(g)
        \/ WriteExpStep(g)
        \/ PutNext(g)
        \/ Return(g)

SpecEvict == InitEvict /\ [][NextEvict]_vars

\* ---- a Pool whose every method is called by goroutines, under the
\* ---- scheduling Go gives them
\* The readers given to Put and PutForever.
FreeSources == {NewBuffer(Fill(1, ShortLen)), NewReader(Fill(1, ShortLen), <<0>>, FALSE)}

NextFree ==
    \/ \E g \in Writers :
            CallPutFrom(g, {"Put", "PutForever"}, SharedKeys, FreeSources, FutureTimes)
    \/ \E g \in Goroutines :
            CallPool(g, {"GetItem", "IsHit", "Get", "DeleteItem", "Clear"}, SharedKeys, {<<>>})
    \/ \E g \in Goroutines :
        \/ PoolLock(g)
        \/ GetItemStep(g)
        \/ DeleteItemStep(g)
        \/ ClearStep(g)
        \/ PoolUnlock(g)
        \/ ItemLock(g)
        \/ IsHitStep(g)
        \/ OpenOrCreateFile(g)
        \/ OpenStep(g)
        \/ ReadStep(g)
        \/ SumStep(g)
        \/ WriteStep(g)
        \/ WriteExpStep(g)
        \/ PutNext(g)
        \/ Return(g)

\* As Scheduled, for the methods of Pool too.
ScheduledInPool(g) ==
    /\ WF_vars(GetItemStep(g) \/ DeleteItemStep(g) \/ ClearStep(g) \/ PoolUnlock(g)
                 \/ IsHitStep(g) \/ OpenOrCreateFile(g) \/ OpenStep(g) \/ ReadStep(g)
                 \/ SumStep(g) \/ WriteStep(g) \/ WriteExpStep(g) \/ PutNext(g)
                 \/ Return(g))
    /\ SF_vars(PoolLock(g))
    /\ SF_vars(ItemLock(g))

SpecFree == InitPool /\ [][NextFree]_vars /\ \A g \in Goroutines : ScheduledInPool(g)

\* ---- Items built by goroutines, for any key
\* ---- an Item kept by goroutines while its entry expires, and a Pool that
\* ---- is asked for the key again
\* The methods of Item that read.
ReadOps == {"IsHit", "Get", "IsExpired", "ExpiresAt"}

\* The directory after pool.Put("a", FirstPayload, t), t two ticks ahead.
InitDirRetain == Put(InitDir, <<97>>, FirstPayload, StartNow + 2 * TickNs).d

InitRetain ==
    /\ dir = WithOrphans(InitDirRetain)
    /\ now = StartNow
    /\ last = [Op("Put", <<97>>) EXCEPT !.arg = FirstPayload, !.when = StartNow + 2 * TickNs]
    /\ written = SharedKeys
    /\ procs = [g \in Goroutines |-> Idle]
    /\ locks = Unlocked

NextRetain ==
    \/ Tick
    \/ \E g \in Goroutines :
        \/ CallItem(g, ReadOps, SharedKeys, {<<>>}, {0})
        \/ CallPool(g, {"GetItem"}, SharedKeys, {<<>>})
        \/ PoolLock(g)
        \/ GetItemStep(g)
        \/ PoolUnlock(g)
        \/ ItemLock(g)
        \/ IsHitStep(g)
        \/ OpenStep(g)
        \/ ReadStep(g)
        \/ SumStep(g)
        \/ ReadExpStep(g)
        \/ Return(g)

SpecRetain == InitRetain /\ [][NextRetain]_vars

\* g builds an Item (as GetItem, Put and the others do) and keeps it.
NewItem(g, K) ==
    \E k \in K :
        /\ Move(g, [Idle EXCEPT !.op = "newItem", !.key = k, !.item = newItem(k)])
        /\ UNCHANGED <<dir, now, last, written, locks>>

InitNames ==
    /\ dir = InitDir
    /\ now = StartNow
    /\ last = Op("NewPool", <<>>)
    /\ written = {}
    /\ procs = [g \in Goroutines |-> Idle]
    /\ locks = Unlocked

NextNames ==
    \/ \E g \in Goroutines : NewItem(g, KeyStrings)
    \/ Tick

SpecNames == InitNames /\ [][NextNames]_vars

\* ------------------------------------------------------------ claims
\* The last call completed is op on key k and it returned a nil error.
Succeeded(op, k) == last.op = op /\ last.key = k /\ last.err = NoError

\* C1: right after a successful Item.Set(P), whatever the key's entry held
\* before (nothing, a shorter or a longer payload), Item.Get delivers exactly
\* P to the sink and returns no error.
C1_SetThenGetYieldsPayload ==
    \A k \in ItemKeys :
        Succeeded("Set", k) => get(dir, k) = [err |-> NoError, out |-> last.arg]

\* C2: after a successful PutForever(k, P), whatever k's entry held before
\* (an expiration stored by an earlier Put included), HasItem(k) is true
\* however much time has passed since.
C2_PutForeverNeverExpires ==
    \A k \in Keys :
        Succeeded("PutForever", k) => HasItem(dir, k, now).hit

\* The expiration field of the file at k's path, in nanoseconds (0: unset).
StoredExpiration(d, k) == getExpiresAtUnixMs(d[GetFilePath(k)]).ms * Millisecond

\* C3: with goroutines running pool.GetItem(k).Get(sink) and
\* pool.GetItem(k).Set(P) on one existing key that does not expire, every Get
\* and every Set returns a nil error.
C3_ConcurrentGetSetNoError ==
    last.op \in {"Get", "Set"} => last.err = NoError

\* C4: GetItem(k) and HasItem(k), called when k's file exists, delete it and
\* leave IsHit() false if it stores an expiration strictly earlier than the
\* current time, and otherwise (not expired, or no expiration stored) leave
\* the file as it is and IsHit() true.
C4_LazyEviction ==
    [][\A k \in Keys :
        (/\ now' = now
         /\ last'.op \in {"GetItem", "HasItem"} /\ last'.key = k
         /\ dir[GetFilePath(k)].kind = "file")
        => IF StoredExpiration(dir, k) # 0 /\ StoredExpiration(dir, k) < now
           THEN dir'[GetFilePath(k)].kind = "none" /\ ~isHit(dir', k)
           ELSE dir'[GetFilePath(k)] = dir[GetFilePath(k)] /\ isHit(dir', k)]_vars

\* C4 witness: a GetItem found the key's file and has deleted it.
C4_Evicted ==
    /\ last.op = "GetItem" /\ last.had
    /\ dir[GetFilePath(last.key)].kind = "none"

\* C5: after a successful Put(k, P, t), at every moment earlier than t,
\* IsExpired() returns (false, nil), HasItem(k) is true and GetItem(k).Get
\* yields P.
C5_AvailableUntilExpiration ==
    \A k \in Keys :
        (Succeeded("Put", k) /\ now < last.when)
        => /\ isExpired(dir, k, now) = [expired |-> FALSE, err |-> NoError]
           /\ HasItem(dir, k, now).hit
           /\ get(getItem(dir, k, now), k) = [err |-> NoError, out |-> last.arg]

\* A cache member: a regular file whose first 8 bytes are the pool signature.
Member(d, n) ==
    /\ d[n].kind = "file"
    /\ Len(d[n].sig) >= SignatureLength
    /\ SubSeq(d[n].sig, 1, SignatureLength) = ItemSignature

\* C6: every directory entry that is not a cache member is there, unchanged,
\* after Clear returns, whatever Clear returns.
C6_ClearKeepsNonMembers ==
    [][(now' = now /\ last'.op = "Clear")
        => \A n \in Names : ~Member(dir, n) => dir'[n] = dir[n]]_vars

\* C7: after a Clear that returns (true, nil), HasItem(k) is false for every
\* key that was written, and no regular file of the directory begins with
\* the pool signature.
C7_ClearRemovesEveryEntry ==
    (last.op = "Clear" /\ last.res)
    => /\ \A k \in written : ~HasItem(dir, k, now).hit
       /\ \A n \in Names : ~Member(dir, n)

\* C8: after the Data region was changed behind the stored checksum's back,
\* Item.Get returns ErrFileReading caused by the checksum mismatch, and the
\* sink has received every byte from the Data offset to the end of the file.
C8_CorruptionDetected ==
    \A k \in ItemKeys :
        (last.op = "Corrupt" /\ last.key = k)
        => get(dir, k) = [err |-> newError(ErrFileReading, ErrMismatch),
                          out |-> dir[GetFilePath(k)].data]

\* C8 witness: a corrupted payload that takes more than one read to deliver.
C8_CorruptedLong ==
    /\ last.op = "Corrupt"
    /\ Len(dir[GetFilePath(last.key)].data) > rwBufferSize

\* C9: whenever no write is in progress, the stored checksum of a written
\* key's file is the digest of exactly the bytes from the Data offset to the
\* end of the file.
C9_ChecksumOfWholeData ==
    \A k \in written :
        dir[GetFilePath(k)].kind = "file"
        => dir[GetFilePath(k)].sum = HashSum(HashWrite(HashReset, dir[GetFilePath(k)].data))

\* The goroutine g is inside a method of its Item, the item's mutex taken.
InMethod(g) ==
    procs[g].pc \notin {"idle", "GetItem", "getItem", "getOpen", "getExp", "getDelete",
                        "delete", "clear", "poolUnlock", "Lock"}

\* C10: at most one goroutine at a time is inside a method of the shared
\* Item, none of the calls returns an error and ExpiresAt never returns nil.
C10_SerializedWithoutError ==
    /\ \A g, h \in Goroutines :
        (g # h /\ procs[g].item = procs[h].item) => ~(InMethod(g) /\ InMethod(h))
    /\ last.err = NoError
    /\ last.op = "ExpiresAt" => last.res

\* C11: DeleteItem(k), called when k's file exists, returns (true, nil),
\* leaves HasItem(k) false, leaves every other name of the directory as it
\* was and HasItem of every other written key as it was.
C11_DeleteRemovesOnlyThatFile ==
    [][\A k \in Keys :
        (/\ now' = now
         /\ last'.op = "DeleteItem" /\ last'.key = k
         /\ dir[GetFilePath(k)].kind = "file")
        => /\ last'.res /\ last'.err = NoError
           /\ ~HasItem(dir', k, now).hit
           /\ \A n \in Names \ {GetFilePath(k)} : dir'[n] = dir[n]
           /\ \A j \in written \ {k} :
                HasItem(dir', j, now).hit = HasItem(dir, j, now).hit]_vars

\* C11 witness: a DeleteItem has removed one written key's file while the
\* other written key's file is there.
C11_DeletedOneOfTwo ==
    /\ last.op = "DeleteItem" /\ last.had /\ last.res
    /\ last.key \in written
    /\ \E j \in written \ {last.key} : isHit(dir, j)

\* C12: DeleteItem(k), called when nothing is at k's path, returns false with
\* a non-nil error and leaves the directory as it was.
C12_DeleteAbsentFails ==
    [][\A k \in Keys :
        (/\ now' = now
         /\ last'.op = "DeleteItem" /\ last'.key = k
         /\ dir[GetFilePath(k)].kind = "none")
        => /\ ~last'.res /\ last'.err # NoError
           /\ dir' = dir]_vars

\* C12 witness: a DeleteItem of a key without a file has failed.
C12_DeleteFailed ==
    /\ last.op = "DeleteItem" /\ ~last.had /\ ~last.res
    /\ last.err.kind = ENOENT

\* C13: IsExpired returns (E < now, nil) when the key's file stores a
\* non-zero expiration E (so false when now = E), and (false,
\* ErrExpirationDataNotAvailable) when the file stores none or is absent.
C13_IsExpiredResult ==
    \A k \in ItemKeys :
        IF dir[GetFilePath(k)].kind = "file" /\ StoredExpiration(dir, k) # 0
        THEN isExpired(dir, k, now) =
                [expired |-> StoredExpiration(dir, k) < now, err |-> NoError]
        ELSE /\ ~isExpired(dir, k, now).expired
             /\ isExpired(dir, k, now).err.kind = ErrExpirationDataNotAvailable

\* C13 witness: IsExpired was called at the very instant stored, and said no.
C13_NotExpiredAtTheInstant ==
    /\ last.op = "IsExpired" /\ ~last.res /\ last.err = NoError
    /\ StoredExpiration(dir, last.key) = now

\* C14: HasItem(k) is true only when the file at k's path is a cache member.
C14_NonMemberNeverHit ==
    \A k \in Keys :
        (last.op = "HasItem" /\ last.key = k /\ last.res) => Member(dir, GetFilePath(k))

\* The suffix of an entry's file name: ".cache".
CacheSuffix == <<46, 99, 97, 99, 104, 101>>

\* C15: the file name of every Item built, whatever the length of its key,
\* ends with ".cache" and has at most 32 characters before it.
C15_BoundedFileName ==
    \A g \in Goroutines :
        procs[g].op = "newItem"
        => /\ Len(procs[g].item.fileName) <= 32 + Len(CacheSuffix)
           /\ Len(procs[g].item.fileName) >= Len(CacheSuffix)
           /\ SubSeq(procs[g].item.fileName,
                     Len(procs[g].item.fileName) - Len(CacheSuffix) + 1,
                     Len(procs[g].item.fileName)) = CacheSuffix

\* C16: any two Items built, whenever they were, have the same file path
\* exactly when they have the same key.
C16_SamePathIffSameKey ==
    \A g, h \in Goroutines :
        (procs[g].op = "newItem" /\ procs[h].op = "newItem")
        => ((procs[g].item.key = procs[h].item.key)
            <=> (procs[g].item.fileName = procs[h].item.fileName))

\* C16 witness: two Items built at different times for keys of different
\* lengths.
C16_TwoItems ==
    /\ now > StartNow
    /\ \E g, h \in Goroutines :
        /\ procs[g].op = "newItem" /\ procs[h].op = "newItem"
        /\ Len(procs[g].item.key) < Len(procs[h].item.key)

\* C17: a Put whose data write fails returns that error and leaves the
\* directory as the failed Set left it; a Put whose data write succeeds and
\* whose expiration write fails returns the expiration write's error, and a
\* Get on the key then yields the payload.
C17_PutPartialSuccess ==
    [][\A k \in SharedKeys :
        (now' = now /\ last'.op = "Put" /\ last'.key = k)
        => IF set(dir, k, last'.arg).err # NoError
           THEN /\ last'.err = set(dir, k, last'.arg).err
                /\ dir' = set(dir, k, last'.arg).d
           ELSE setExpiresAt(set(dir, k, last'.arg).d, k, last'.when).err # NoError
                => /\ last'.err = setExpiresAt(set(dir, k, last'.arg).d, k, last'.when).err
                   /\ get(dir', k) = [err |-> NoError, out |-> last'.arg]]_vars

\* C18: a successful SetExpiresAt(t) with a non-zero millisecond count stores
\* that count at offset 8 as 8 little-endian bytes, ExpiresAt() then returns
\* t without its sub-millisecond part, and an entry that was there keeps
\* every other field (the counts of the model are below 2^24: bytes 4 to 8
\* are zero).
C18_ExpirationRoundTrip ==
    [][\A k \in ItemKeys :
        (/\ now' = now
         /\ last'.op = "SetExpiresAt" /\ last'.key = k /\ last'.err = NoError
         /\ last'.when \div Millisecond # 0)
        => /\ expiresAt(dir', k) =
                [isNil |-> FALSE, t |-> last'.when - (last'.when % Millisecond), err |-> Nil]
           /\ Len(dir'[GetFilePath(k)].exp) = ExpiresAtLength
           /\ \A i \in 1..ExpiresAtLength :
                dir'[GetFilePath(k)].exp[i]
                    = IF i > 3 THEN 0
                      ELSE ((last'.when \div Millisecond) \div (256 ^ (i - 1))) % 256
           /\ dir[GetFilePath(k)].kind = "file"
                => dir' = [dir EXCEPT ![GetFilePath(k)].exp = dir'[GetFilePath(k)].exp]]_vars

\* C18 witness: an existing entry was given an instant between two
\* milliseconds, whose count takes more than one byte.
C18_SubMillisecondStored ==
    /\ last.op = "SetExpiresAt" /\ last.had /\ last.err = NoError
    /\ last.when % Millisecond # 0 /\ last.when \div Millisecond > 255

\* C19: Get on a key without a file returns ErrFileOpening caused by the
\* open error, gives the sink nothing and creates nothing.
C19_GetAbsentKey ==
    [][\A k \in ItemKeys :
        (/\ now' = now
         /\ last'.op = "Get" /\ last'.key = k
         /\ dir[GetFilePath(k)].kind = "none")
        => /\ last'.err = newError(ErrFileOpening, ENOENT)
           /\ last'.out = <<>>
           /\ dir' = dir
           /\ ~isHit(dir', k)]_vars

\* C19 witness: a Get has failed to open a key that has no file.
C19_GetFailedToOpen ==
    /\ last.op = "Get" /\ last.err.kind = ErrFileOpening
    /\ dir[GetFilePath(last.key)].kind = "none"

\* C20: right after a successful file.Create, whatever the path held before,
\* the file is exactly a signature, no expiration, the digest of the empty
\* payload and no data, and Get yields the empty payload; an entry that Set
\* or SetExpiresAt had to create is a member with a matching digest.
C20_CreatedWellFormed ==
    \A k \in ItemKeys :
        /\ (last.op = "Create" /\ last.key = k /\ last.err = NoError)
            => /\ dir[GetFilePath(k)] =
                    [EmptyFile EXCEPT !.sig = ItemSignature,
                                      !.exp = Fill(0, ExpiresAtLength),
                                      !.sum = HashSum(HashReset)]
               /\ SignatureMatched(dir[GetFilePath(k)], ItemSignature).matched
               /\ GetExpiresAt(dir[GetFilePath(k)]).err = ErrNotSet
               /\ get(dir, k) = [err |-> NoError, out |-> <<>>]
        /\ (last.op \in {"Set", "SetExpiresAt"} /\ last.key = k /\ last.err = NoError /\ ~last.had)
            => /\ Member(dir, GetFilePath(k))
               /\ get(dir, k) = [err |-> NoError, out |-> last.arg]

\* C20 witness: file.Create has succeeded on a path that held a file.
C20_CreatedOverContent ==
    /\ last.op = "Create" /\ last.had /\ last.err = NoError

\* The members Clear tries to remove and cannot: those it can open.
FailedRemovals(d) ==
    {n \in Names : Member(d, n) /\ EACCES \notin d[n].faults /\ RemoveFails(d[n]) # Nil}

\* The last name of S in the order of the directory listing.
LastName(S) == CHOOSE n \in S : \A m \in S \ {n} : NameLess(m, n)

\* C21: Clear is best-effort. When the directory cannot be listed it returns
\* (false, that error) and removes nothing. Otherwise every member it can
\* open and remove is gone after it, whether or not an earlier removal
\* failed; a member it cannot open, or cannot remove, is left as it was; it
\* returns (true, nil) when no removal failed, and else (false, the error of
\* the last removal that failed); a file it cannot open does not make it fail.
C21_ClearBestEffort ==
    [][(last'.op = "Clear" /\ now' = now)
        => IF EACCES \in dir[dirPath].faults
           THEN /\ dir' = dir
                /\ ~last'.res /\ last'.err = newError(EACCES, Nil)
           ELSE /\ \A n \in Names : Member(dir, n)
                    => IF EACCES \in dir[n].faults \/ RemoveFails(dir[n]) # Nil
                       THEN dir'[n] = dir[n]
                       ELSE dir'[n].kind = "none"
                /\ last'.res = (FailedRemovals(dir) = {})
                /\ last'.err =
                     IF FailedRemovals(dir) = {} THEN NoError
                     ELSE newError(RemoveFails(dir[LastName(FailedRemovals(dir))]), Nil)]_vars

\* C21 witness: a Clear has found both keys' files, failed to remove the
\* first one and removed the second one.
C21_RemovedAfterFailure ==
    /\ last.op = "Clear" /\ ~last.res /\ last.err.kind = EPERM
    /\ \E i, j \in DOMAIN last.out :
        /\ i < j
        /\ last.out[i] = GetFilePath(<<97>>) /\ Member(dir, last.out[i])
        /\ last.out[j] = GetFilePath(<<98>>) /\ dir[last.out[j]].kind = "none"

\* C30: in every state of the entry, ExpiresAt() returns nil exactly when
\* IsExpired() returns an error, and a time exactly when IsExpired() returns
\* a nil error: for the two called on the same state, and for each one
\* compared with what the other has just returned.
C30_ExpiresAtAgreesWithIsExpired ==
    \A k \in ItemKeys :
        /\ expiresAt(dir, k).isNil <=> (isExpired(dir, k, now).err # NoError)
        /\ (last.op = "ExpiresAt" /\ last.key = k)
            => (last.res <=> (isExpired(dir, k, now).err = NoError))
        /\ (last.op = "IsExpired" /\ last.key = k)
            => ((last.err = NoError) <=> ~expiresAt(dir, k).isNil)

\* C30 witness: IsExpired has returned an error on an entry that is present
\* and holds no expiration.
C30_PresentWithoutExpiration ==
    /\ last.op = "IsExpired" /\ last.err.kind = ErrExpirationDataNotAvailable
    /\ last.err.cause = ErrNotSet
    /\ Member(dir, GetFilePath(last.key))

\* C27: after a Set that succeeds on a key that had no file, whatever the
\* way the reader split its bytes across reads, the Data region holds the
\* whole byte sequence of the reader and the checksum is its digest.
C27_SetStoresWholeSource ==
    \A k \in ItemKeys :
        (last.op = "Set" /\ last.key = k /\ ~last.had /\ last.err = NoError)
        => /\ dir[GetFilePath(k)].data = last.arg
           /\ dir[GetFilePath(k)].sum = HashSum(HashWrite(HashReset, last.arg))

\* C22: in every interleaving, whenever a GetItem(k) removes k's file, the
\* entry that the file holds at that moment has an expiration, and one that
\* is strictly earlier than the current time; so the entry a Put with a
\* future expiration has just completed is never removed.
C22_EvictsOnlyExpired ==
    [][\A g \in Goroutines :
        (/\ procs[g].pc = "getDelete" /\ procs'[g].pc = "poolUnlock"
         /\ dir[GetFilePath(procs[g].key)].kind = "file"
         /\ dir'[GetFilePath(procs[g].key)].kind = "none")
        => /\ GetExpiresAt(dir[GetFilePath(procs[g].key)]).err = Nil
           /\ GetExpiresAt(dir[GetFilePath(procs[g].key)]).t < now]_vars

\* C23: when Put(k, P, t) with t in the future returns nil while the other
\* goroutines only call GetItem(k) and HasItem(k), then at its return k's
\* entry exists, holds the payload P and the expiration t truncated to
\* milliseconds.
C23_PutEffectiveUnderLookups ==
    [][\A g \in Writers :
        (/\ procs[g].call = "Put" /\ procs[g].pc = "return" /\ procs'[g].pc = "idle"
         /\ procs[g].err = NoError /\ procs[g].when > now)
        => /\ dir'[GetFilePath(procs[g].key)].kind = "file"
           /\ dir'[GetFilePath(procs[g].key)].data = procs[g].arg
           /\ StoredExpiration(dir', procs[g].key)
                = (procs[g].when \div Millisecond) * Millisecond]_vars

\* C24: in every interleaving of Get with Sets on the same key through
\* Items of their own, a Get that returns nil has delivered the complete
\* payload of one Set, or the empty payload of an entry just created: never
\* a mixture of two payloads and never a prefix of one.
C24_NoSilentTornRead ==
    (last.op = "Get" /\ last.err = NoError) => last.out \in TornPayloads \cup {<<>>}

\* C24 witness: a Get has returned nil with a whole payload while another
\* goroutine is in the middle of writing the key's file.
C24_ReadDuringWrite ==
    /\ last.op = "Get" /\ last.err = NoError /\ last.out \in TornPayloads
    /\ \E g \in Goroutines : procs[g].op = "Set" /\ procs[g].pc = "write"
                              /\ procs[g].st.off > DataOffset

\* C25: once every Set issued on the key through the shared Pool has
\* returned nil and no call is running, the key's entry is well-formed: a
\* Get returns nil and yields the payload of one of those Sets.
C25_WellFormedAtQuiescence ==
    \A k \in SharedKeys :
        (k \in written /\ \A g \in Goroutines : procs[g].pc = "idle")
        => /\ get(dir, k).err = NoError
           /\ get(dir, k).out \in TornPayloads

\* C29: Item.Set returns ErrFileOpening when a regular file is there and
\* cannot be opened, ErrFileWriting when no regular file is there and none
\* can be created, ErrFileWriting when writing the data or the checksum
\* fails, each with the error met as its cause, and nil otherwise; and when
\* it returns the item's mutex is free.
C29_SetErrorKinds ==
    [][\A g \in Goroutines :
        (procs[g].op = "Set" /\ procs[g].pc = "return" /\ procs'[g].pc = "idle")
        => /\ procs[g].err =
                IF dir[GetFilePath(procs[g].key)].kind = "dir"
                THEN newError(ErrFileWriting, EISDIR)
                ELSE IF EACCES \in dir[GetFilePath(procs[g].key)].faults
                THEN newError(ErrFileOpening, EACCES)
                ELSE IF "data" \in dir[GetFilePath(procs[g].key)].faults
                        /\ procs[g].arg # <<>>
                THEN newError(ErrFileWriting, EIO)
                ELSE IF "sum" \in dir[GetFilePath(procs[g].key)].faults
                THEN newError(ErrFileWriting, EIO)
                ELSE NoError
           /\ last'.err = procs[g].err
           /\ locks'.item[procs[g].item] = 0]_vars

\* C29 witness: a Set has failed to open the regular file that is there, and
\* the item's mutex is free again.
C29_FailedToOpenAndUnlocked ==
    /\ last.op = "Set" /\ last.err = newError(ErrFileOpening, EACCES)
    /\ dir[GetFilePath(last.key)].kind = "file"
    /\ locks.item[SharedItem] = 0

\* C28: Item.Set from a source that gives finitely many bytes and then
\* end-of-stream, whatever the sizes of its reads (a read of no byte with no
\* error included), and Item.Get on a file of finite length, once called,
\* return and leave the item's mutex free.
C28_SetAndGetTerminate ==
    \A g \in Goroutines :
        (procs[g].op \in {"Set", "Get"} /\ procs[g].pc = "Lock")
            ~> (procs[g].pc = "idle" /\ locks.item[SharedItem] # g)

\* The steps a goroutine takes holding the pool's mutex.
InPool(g) == procs[g].pc \in {"getItem", "getOpen", "getExp", "getDelete", "delete", "clear",
                               "poolUnlock"}

\* C26: the pool's mutex is held only inside GetItem, DeleteItem and Clear
\* and never asked for by its holder, an item's mutex is held only inside a
\* method of that item and its holder never asks for the pool's mutex, a
\* goroutine between two calls holds no mutex, and every call of a method of
\* Pool or Item returns.
C26_NoDeadlockAndEveryCallReturns ==
    /\ [](\A g \in Goroutines :
            /\ locks.pool = g => InPool(g)
            /\ \A i \in DOMAIN locks.item :
                    locks.item[i] = g => (procs[g].item = i /\ InMethod(g) /\ ~InPool(g))
            /\ procs[g].pc = "GetItem" => locks.pool # g)
    /\ \A g \in Goroutines : (procs[g].pc # "idle") ~> (procs[g].pc = "idle")

\* C31 as stated: after a successful SetExpiresAt(t) on a key without a file
\* IsHit() is true, Get gives the empty payload without error and
\* ExpiresAt() is t without its sub-millisecond part; on a file that was
\* there SetExpiresAt changes neither the payload nor the checksum.
C31_SetExpiresAtCreates ==
    [][\A k \in ItemKeys :
        (/\ now' = now
         /\ last'.op = "SetExpiresAt" /\ last'.key = k /\ last'.err = NoError)
        => /\ dir[GetFilePath(k)].kind = "none"
                => /\ isHit(dir', k)
                   /\ get(dir', k) = [err |-> NoError, out |-> <<>>]
                   /\ expiresAt(dir', k) =
                        [isNil |-> FALSE, t |-> last'.when - (last'.when % Millisecond),
                         err |-> Nil]
           /\ dir[GetFilePath(k)].kind = "file"
                => /\ dir'[GetFilePath(k)].data = dir[GetFilePath(k)].data
                   /\ dir'[GetFilePath(k)].sum = dir[GetFilePath(k)].sum]_vars

\* C31 amended: the same, but ExpiresAt() is t without its sub-millisecond
\* part only when t's count of milliseconds is not zero; when it is zero the
\* entry is created all the same and ExpiresAt() is nil.
C31_SetExpiresAtCreatesUnlessZero ==
    [][\A k \in ItemKeys :
        (/\ now' = now
         /\ last'.op = "SetExpiresAt" /\ last'.key = k /\ last'.err = NoError)
        => /\ dir[GetFilePath(k)].kind = "none"
                => /\ isHit(dir', k)
                   /\ get(dir', k) = [err |-> NoError, out |-> <<>>]
                   /\ expiresAt(dir', k) =
                        IF last'.when \div Millisecond # 0
                        THEN [isNil |-> FALSE, t |-> last'.when - (last'.when % Millisecond),
                              err |-> Nil]
                        ELSE [isNil |-> TRUE, t |-> 0, err |-> ErrNotSet]
           /\ dir[GetFilePath(k)].kind = "file"
                => /\ dir'[GetFilePath(k)].data = dir[GetFilePath(k)].data
                   /\ dir'[GetFilePath(k)].sum = dir[GetFilePath(k)].sum]_vars

\* C31 witness: SetExpiresAt has created the entry of a key that had no
\* file, with an instant between two milliseconds.
C31_CreatedByExpiration ==
    /\ last.op = "SetExpiresAt" /\ ~last.had /\ last.err = NoError
    /\ last.when % Millisecond # 0 /\ last.when \div Millisecond # 0
    /\ dir[GetFilePath(last.key)].data = <<>>
    /\ isHit(dir, last.key)

\* C32: after Item.Set, Pool.Put or Pool.PutForever has returned nil for a
\* key, whatever was at the key's path before, the file at that path begins
\* with the pool signature, and a Clear that follows removes it.
C32_WrittenEntryIsMember ==
    \A k \in Keys :
        (last.op \in {"Set", "Put", "PutForever"} /\ last.key = k /\ last.err = NoError)
        => /\ Member(dir, GetFilePath(k))
           /\ Clear(dir).d[GetFilePath(k)].kind = "none"

\* C33: no step of Item.IsHit, Item.Get, Item.IsExpired or Item.ExpiresAt,
\* whether the call succeeds or fails, changes which names the pool
\* directory holds or what a file holds; an entry that has expired under an
\* Item that was kept is removed by no such call, only by the deleteItem of a
\* later Pool.GetItem.
C33_ReadsLeaveCacheAlone ==
    [][/\ \A g \in Goroutines :
            (/\ procs[g].op \in ReadOps
             /\ procs'[g].pc # procs[g].pc \/ procs'[g].st # procs[g].st)
            => \A n \in Names : dir'[n] = dir[n]
       /\ \A k \in SharedKeys :
            (dir[GetFilePath(k)].kind = "file" /\ dir'[GetFilePath(k)].kind = "none")
            => \E g \in Goroutines :
                    /\ procs[g].op = "GetItem" /\ procs[g].pc = "getDelete"
                    /\ procs'[g].pc # "getDelete"]_vars

\* C33 witness: IsExpired on an Item that was kept has answered that the
\* entry has expired, and the entry's file is still there.
C33_ExpiredButKept ==
    /\ last.op = "IsExpired" /\ last.res /\ last.err = NoError
    /\ dir[GetFilePath(last.key)].kind = "file"
    /\ dir[GetFilePath(last.key)].data = FirstPayload

\* The file of key k is there and every byte it has of the expiration field
\* is zero.
StoredZero(d, k) ==
    /\ d[GetFilePath(k)].kind = "file"
    /\ \A i \in DOMAIN d[GetFilePath(k)].exp : d[GetFilePath(k)].exp[i] = 0

\* C34: for an entry whose stored expiration field is 0, never set or set by
\* SetExpiresAt with an instant of millisecond count 0, File.GetExpiresAt
\* fails with "value was not set", IsExpired returns (false,
\* ErrExpirationDataNotAvailable), ExpiresAt returns nil, and GetItem leaves
\* the entry where it is.
C34_ZeroMeansUnset ==
    [][\A k \in ItemKeys :
        (now' = now /\ last'.key = k /\ StoredZero(dir, k))
        => /\ GetExpiresAt(dir[GetFilePath(k)]).err = ErrNotSet
           /\ last'.op = "IsExpired"
                => /\ ~last'.res
                   /\ last'.err = newError(ErrExpirationDataNotAvailable, ErrNotSet)
           /\ last'.op = "ExpiresAt" => ~last'.res
           /\ last'.op = "GetItem" => dir' = dir]_vars

\* C34 witness: an entry that was written holds 0 in all eight bytes of its
\* expiration field, and a GetItem later than the epoch has left it in place.
C34_KeptAfterEpochExpiration ==
    /\ last.op = "GetItem" /\ last.had /\ now > 0
    /\ StoredZero(dir, last.key)
    /\ Len(dir[GetFilePath(last.key)].exp) = ExpiresAtLength
    /\ last.key \in written

====
